---- MODULE Spec2Model ----
(***************************************************************************)
(* A model of sapp/models.py: the primary-key range allocator              *)
(* (PrimaryKeyGenerator over the primary_keys table), the placeholder      *)
(* identities (DBID) and the key-based merge of PrepareMixin.              *)
(*                                                                         *)
(* Spec      : concurrent writers (processes) running reserve / get /      *)
(*             bulk insert against one store, on one kind.                 *)
(* SpecSeq   : one writer running one reserve, then get / bulk insert,     *)
(*             over several kinds.                                         *)
(* SpecMerge : one writer running merge / prepare of one key-merged kind   *)
(*             over a candidate sequence.                                  *)
(***************************************************************************)
EXTENDS Integers, Sequences, FiniteSets, Bags, TLC

\* ------------------------------------------------------------------ bounds

\* Largest count a reserve call asks for one kind.
MaxCount == 3
\* Number of reserve calls made in one behaviour, over all writers.
MaxReserves == 2
\* Rows a data table may hold before the first call.
MaxInitRows == 1
\* Longest candidate sequence given to merge / prepare.
MaxItems == 3
\* Rows the table of the merged kind may hold before the batch.
MaxStored == 2
\* Longest candidate sequence of the kind prepared after the merged kind.
MaxDeps == 2
\* DBID objects a caller of the DBID interface makes.
MaxObjects == 2
\* DBID objects the endpoints of association candidates are taken from.
MaxEndpoints == 3
\* Longest list of views given to compute_models, all_views apart.
MaxViews == 3

\* The largest column number of a source location, and the longest list of
\* source locations written.
MaxColumn == 2

MaxLocations == 2

\* The most candidates in the batch of each of two concurrent processes.
MaxRaceItems == 2

\* --------------------------------------------------------------- constants

\* _lock_pk_with_retries: retries: int = 3
RETRIES == 3

\* "Number of variables that can safely be set on a single DB call"
BATCH_SIZE == 900

\* The kinds of the model: the four key-merged kinds and IssueInstance, all
\* registered in QUERY_CLASSES, and one association kind, which is not.
Kinds == {"Issue", "IssueInstance", "SharedText", "Sink", "Source",
          "TraceFrameLeafAssoc"}

QUERY_CLASSES == {"Issue", "IssueInstance", "SharedText", "Sink", "Source"}

\* The writers (processes) that share the store.
Writers == {1, 2}

\* No row in primary_keys for a kind / the Python None of cls_pk.
NoRow == -1

\* No writer holds the row lock.
NoWriter == 0

\* No entry in the pks dictionary.
NoRange == <<>>

\* ---------------------------------------------------------------- helpers

SetMax(S) == IF S = {} THEN 0 ELSE CHOOSE x \in S : \A y \in S : y <= x

\* ------------------------------------------------------------------- state

VARIABLES
    primary_keys,   \* primary_keys table: kind -> current_id, or NoRow
    data,           \* data tables: kind -> set of identities present
    rowLock,        \* kind -> writer holding SELECT ... FOR UPDATE on its row
    pks,            \* writer -> PrimaryKeyGenerator.pks (class attribute)
    proc,           \* writer -> position and locals inside reserve
    ret,            \* outcome of the call the last step completed (NoOutcome
                    \* when the last step completed no call)
    granted,        \* history: the bag of ranges stored by _reserve_id_range
    got,            \* history: writer -> kind -> the range last stored, how
                    \*          it was reserved, the identities get
                    \*          returned since, in order, and the identities
                    \*          left in the ranges it replaced
    pending,        \* writer -> kind -> identities obtained, not yet inserted
    nreserve,       \* number of reserve calls made so far
    scope,          \* the writers and kinds a behaviour uses (fixed by Init)
    batch,          \* the merged kind, its candidate records and sequence,
                    \* and the consumer of merge (fixed by Init)
    rows,           \* the rows of the merged kind's table: id and key
    heap,           \* the DBID objects, by address
    next_id,        \* DBID.next_id
    mg,             \* the merge generator: position and locals
    prepared,       \* the dictionaries prepare has yielded, in order
    warnings,       \* the handles log.warning was called with, in order
    dep,            \* the kind prepared after the merged kind: its candidate
                    \* records and sequence, the position and locals of its
                    \* merge generator, and what its prepare has yielded
    run,            \* which run of the batch this is (1 or 2)
    gen,            \* RESTApiSourceGenerator: its whitelists, the views
                    \* given to compute_models, its position and locals
    loc,            \* a column of type SourceLocationType or
                    \* SourceLocationsType: the value written, the string
                    \* stored and the value read back
    peer           \* the batch of a second process (writer 2) on the same
                    \* store: its records, its DBID objects, and the position
                    \* and locals of its merge generator and its prepare

mergeVars == <<batch, rows, heap, next_id, mg, prepared, warnings, dep, run, gen, loc, peer>>

vars == <<primary_keys, data, rowLock, pks, proc, ret, granted, got,
          pending, nreserve, scope, mergeVars>>

\* --------------------------------------------------- PrimaryKeyGenerator

\* item_counts: None, or a dictionary from class names to counts.  entry[k]
\* is the count stored under k, NoEntry when the dictionary has no key k.
NoEntry == -1

\* item_counts=None, the default (line 1784).
NoItemCounts == [given |-> FALSE, entry |-> [k \in Kinds |-> NoEntry]]

\* A writer outside reserve.  classes is query_classes (line 1793) of the
\* writer's latest call of reserve, and stored the classes for which that
\* call has assigned self.pks (line 1859).
Idle == [pc |-> "idle", todo |-> {}, counts |-> [k \in Kinds |-> 0],
         use_lock |-> FALSE, cls |-> "", count |-> 0, cls_pk |-> NoRow,
         row |-> 0, retries |-> 0, attempts |-> 0, phase |-> 0,
         classes |-> {}, stored |-> {}, item_counts |-> NoItemCounts]

\* A writer whose call of reserve has ended, by return or by an error.
Left(p) == [Idle EXCEPT !.classes = p.classes, !.stored = p.stored]

\* The item_counts a caller passes: None, or a dictionary whose keys are
\* among the names of the kinds in use.
ItemCountsInputs(kinds) ==
    {NoItemCounts}
    \cup {[given |-> TRUE, entry |-> e] :
            e \in {[k \in Kinds |-> IF k \in kinds THEN f[k] ELSE NoEntry] :
                      f \in [kinds -> {NoEntry} \cup 0..MaxCount]}}

CountFor_ZeroWhenMissing(ic, k) ==
    IF ic.given /\ ic.entry[k] # NoEntry THEN ic.entry[k] ELSE 0

\* reserve, lines 1795-1798: the count used for cls.
\*   if item_counts and cls.__name__ in item_counts: count = item_counts[..]
\*   else: count = 1
CountFor(ic, k) ==
    IF ic.given /\ (\E j \in Kinds : ic.entry[j] # NoEntry) /\ ic.entry[k] # NoEntry
    THEN ic.entry[k]
    ELSE 1

\* reserve, line 1793: the classes of saving_classes that are registered.
query_classes(saving_classes) == saving_classes \cap QUERY_CLASSES

\* The outcome of a call: the value it returned or the error it raised
\* ("" for none); tries is the number of lock attempts of a lock call.
Outcome(w, op, k, val, err, tries) ==
    [writer |-> w, op |-> op, cls |-> k, val |-> val, err |-> err,
     tries |-> tries]

NoOutcome == Outcome(NoWriter, "", "", 0, "", 0)

NoneGot == [range |-> NoRange, vals |-> <<>>, resynced |-> FALSE,
            use_lock |-> FALSE, dropped |-> {}]

\* The identities still to be returned from the entry e of pks.
Unconsumed(e) == IF e = NoRange THEN {} ELSE e[1]..e[2]

\* The loop of reserve (line 1794) moving on: the next class of the set, in
\* any order, enters _reserve_id_range at its first _lock_pk_with_retries;
\* with no class left reserve returns self.
ReserveLoop(p) ==
    IF p.todo = {}
    THEN {Left(p)}
    ELSE {[p EXCEPT !.pc = "lock", !.todo = p.todo \ {k}, !.cls = k,
                    !.count = p.counts[k], !.cls_pk = NoRow, !.row = 0,
                    !.retries = RETRIES, !.attempts = 0, !.phase = 1]
          : k \in p.todo}

\* reserve returns self once its loop is over (line 1801).
ReserveOutcome(w, p) ==
    IF p.pc = "idle" THEN Outcome(w, "reserve", "", 0, "", 0) ELSE NoOutcome

\* reserve(session, saving_classes, item_counts, use_lock), lines 1780-1801.
reserve(w, saving_classes, item_counts, use_lock) ==
    /\ proc[w].pc = "idle"
    /\ nreserve < scope.reserves
    /\ nreserve' = nreserve + 1
    /\ \E p \in ReserveLoop([Idle EXCEPT
                !.todo = query_classes(saving_classes),
                !.classes = query_classes(saving_classes),
                !.item_counts = item_counts,
                !.counts = [k \in Kinds |->
                              IF k \in query_classes(saving_classes)
                              THEN CountFor(item_counts, k) ELSE 0],
                !.use_lock = use_lock]) :
          /\ proc' = [proc EXCEPT ![w] = p]
          /\ ret' = ReserveOutcome(w, p)
    /\ UNCHANGED <<primary_keys, data, rowLock, pks, granted, got, pending, scope, mergeVars>>

LockFree_Always(w, k) == TRUE

\* One pass of the while loop of _lock_pk_with_retries, lines 1808-1823:
\* SELECT ... FOR UPDATE on the row of cls.  The attempt returns None when
\* there is no row, returns the locked row when no other session holds it,
\* and raises OperationalError when another session does.
LockFree(w, k) == rowLock[k] \in {NoWriter, w}

\* _reserve_id_range, line 1836:
\*   row = session.query(cls.id).order_by(cls.id.desc()).first()
\* and "(row.id) if row else 0".
MaxRowId(k) == SetMax(data[k])

AfterLock_IgnoresUseLock(p, cls_pk) ==
    IF p.phase = 1 /\ cls_pk = NoRow
    THEN [p EXCEPT !.pc = "resync", !.cls_pk = cls_pk, !.retries = 0,
                   !.attempts = 0, !.row = MaxRowId(p.cls)]
    ELSE [p EXCEPT !.pc = "extend", !.cls_pk = cls_pk, !.retries = 0,
                   !.attempts = 0]

\* Where _reserve_id_range goes after a lock call returned cls_pk.  After
\* the first call (line 1830) a missing row or use_lock leads to the resync,
\* whose query for the largest id (line 1836) is taken with the lock step:
\* the data table is written by bulk inserts only, which neither read nor
\* write primary_keys or its locks, so every interleaving has the same
\* outcome as one with the query right after the lock.  After the second
\* call (line 1852) comes line 1854.
AfterLock(p, cls_pk) ==
    IF p.phase = 1 /\ (p.use_lock \/ cls_pk = NoRow)
    THEN [p EXCEPT !.pc = "resync", !.cls_pk = cls_pk, !.retries = 0,
                   !.attempts = 0, !.row = MaxRowId(p.cls)]
    ELSE [p EXCEPT !.pc = "extend", !.cls_pk = cls_pk, !.retries = 0,
                   !.attempts = 0]

OnLockError_Swallowed(p) == AfterLock(p, NoRow)

\* "raise ex" (line 1823): neither _reserve_id_range nor reserve catches
\* the error, so the call of reserve ends where it is.
OnLockError(p) == Left(p)

RetriesAfterError_NoDecrement(retries) == retries

\* retries -= 1 (line 1820)
RetriesAfterError(retries) == retries - 1

lock_pk_with_retries(w) ==
    LET p == proc[w]
        k == p.cls
    IN  /\ p.pc = "lock"
        /\ p.retries > 0
        /\ IF primary_keys[k] = NoRow
           THEN /\ proc' = [proc EXCEPT ![w] = AfterLock(p, NoRow)]
                /\ ret' = Outcome(w, "_lock_pk_with_retries", k, NoRow, "",
                                  p.attempts + 1)
                /\ UNCHANGED rowLock
           ELSE IF LockFree(w, k)
           THEN /\ rowLock' = [rowLock EXCEPT ![k] = w]
                /\ proc' = [proc EXCEPT ![w] = AfterLock(p, primary_keys[k])]
                /\ ret' = Outcome(w, "_lock_pk_with_retries", k, primary_keys[k],
                                  "", p.attempts + 1)
           ELSE IF RetriesAfterError(p.retries) = 0
           THEN \* raise ex: the error leaves _reserve_id_range and reserve
                /\ proc' = [proc EXCEPT ![w] = OnLockError(p)]
                /\ ret' = Outcome(w, "reserve", k, 0, "OperationalError",
                                  p.attempts + 1)
                /\ UNCHANGED rowLock
           ELSE /\ proc' = [proc EXCEPT ![w] =
                             [p EXCEPT !.retries = RetriesAfterError(p.retries),
                                       !.attempts = p.attempts + 1]]
                /\ ret' = NoOutcome
                /\ UNCHANGED rowLock
        /\ UNCHANGED <<primary_keys, data, pks, granted, got, pending, nreserve, scope, mergeVars>>

InsertRow_Fails(t, k, v) == t

\* INSERT INTO primary_keys (lines 1839-1846) on the table t: table_name is
\* the primary key (line 1747), so the statement fails, and the rollback of
\* line 1851 leaves the table as it was, when the row of k is there.
InsertRow(t, k, v) == IF t[k] = NoRow THEN [t EXCEPT ![k] = v] ELSE t

\* _reserve_id_range, lines 1837-1852: INSERT the row (it fails, and is
\* rolled back, when another session has inserted it since the lock call)
\* or set current_id of the locked row; commit or rollback ends the
\* transaction, which gives up the row lock; then lock again.
resync(w) ==
    LET p == proc[w]
        k == p.cls
    IN  /\ p.pc = "resync"
        /\ primary_keys' =
              IF p.cls_pk = NoRow
              THEN InsertRow(primary_keys, k, p.row)
              ELSE [primary_keys EXCEPT ![k] = p.row]
        /\ rowLock' = [rowLock EXCEPT ![k] = IF @ = w THEN NoWriter ELSE @]
        /\ proc' = [proc EXCEPT ![w] = [p EXCEPT !.pc = "lock", !.phase = 2,
                                                 !.cls_pk = NoRow,
                                                 !.retries = RETRIES,
                                                 !.attempts = 0]]
        /\ ret' = NoOutcome
        /\ UNCHANGED <<data, pks, granted, got, pending, nreserve, scope, mergeVars>>

pk_entry_FromCurrent(cur, count) == <<cur, cur + count>>

\* _reserve_id_range, lines 1855-1857: the range (next_id, current_id) for
\* a row whose current_id is cur.
pk_entry(cur, count) == <<cur + 1, cur + count>>

Grant(k, entry) == [cls |-> k, next |-> entry[1], max |-> entry[2]]

\* _reserve_id_range, lines 1854-1859, then the loop of reserve moves on.
extend(w) ==
    LET p == proc[w]
        k == p.cls
        entry == pk_entry(p.cls_pk, p.count)
    IN  /\ p.pc = "extend"
        /\ IF p.cls_pk # NoRow
           THEN /\ primary_keys' = [primary_keys EXCEPT ![k] = entry[2]]
                /\ rowLock' = [rowLock EXCEPT ![k] = IF @ = w THEN NoWriter ELSE @]
                /\ pks' = [pks EXCEPT ![w][k] = entry]
                /\ granted' = granted (+) SetToBag({Grant(k, entry)})
                /\ got' = [got EXCEPT ![w][k] =
                             [range |-> entry, vals |-> <<>>,
                              resynced |-> (p.phase = 2),
                              use_lock |-> p.use_lock,
                              dropped |-> got[w][k].dropped
                                          \cup Unconsumed(pks[w][k])]]
           ELSE UNCHANGED <<primary_keys, rowLock, pks, granted, got>>
        /\ \E q \in ReserveLoop([p EXCEPT !.stored =
                                   IF p.cls_pk # NoRow THEN @ \cup {k} ELSE @]) :
              /\ proc' = [proc EXCEPT ![w] = q]
              /\ ret' = ReserveOutcome(w, q)
        /\ UNCHANGED <<data, pending, nreserve, scope, mergeVars>>

Registered_Any(k) == TRUE

\* get, line 1862: assert cls in self.QUERY_CLASSES
Registered(k) == k \in QUERY_CLASSES

InRange_Strict(pk, max_pk) == pk < max_pk

\* get, line 1869: assert pk <= max_pk
InRange(pk, max_pk) == pk <= max_pk

GetResult_DropsOthers(t, k) ==
    IF ~Registered(k)
    THEN [err |-> "NotRegistered", val |-> 0, pks |-> t]
    ELSE IF t[k] = NoRange
    THEN [err |-> "NotReserved", val |-> 0, pks |-> t]
    ELSE IF ~InRange(t[k][1], t[k][2])
    THEN [err |-> "RangeExhausted", val |-> 0, pks |-> t]
    ELSE [err |-> "", val |-> t[k][1],
          pks |-> [j \in DOMAIN t |->
                     IF j = k THEN <<t[k][1] + 1, t[k][2]>> ELSE NoRange]]

GetResult_TwoSteps(t, k) ==
    IF ~Registered(k)
    THEN [err |-> "NotRegistered", val |-> 0, pks |-> t]
    ELSE IF t[k] = NoRange
    THEN [err |-> "NotReserved", val |-> 0, pks |-> t]
    ELSE IF ~InRange(t[k][1], t[k][2])
    THEN [err |-> "RangeExhausted", val |-> 0, pks |-> t]
    ELSE [err |-> "", val |-> t[k][1],
          pks |-> [t EXCEPT ![k] = <<t[k][1] + 2, t[k][2]>>]]

GetResult_NoAdvance(t, k) ==
    IF ~Registered(k)
    THEN [err |-> "NotRegistered", val |-> 0, pks |-> t]
    ELSE IF t[k] = NoRange
    THEN [err |-> "NotReserved", val |-> 0, pks |-> t]
    ELSE [err |-> "", val |-> t[k][1], pks |-> t]

\* get(cls), lines 1861-1871, on the dictionary t: the error raised ("" for
\* none), the value returned and the dictionary afterwards.
GetResult(t, k) ==
    IF ~Registered(k)
    THEN [err |-> "NotRegistered", val |-> 0, pks |-> t]
    ELSE IF t[k] = NoRange
    THEN [err |-> "NotReserved", val |-> 0, pks |-> t]
    ELSE IF ~InRange(t[k][1], t[k][2])
    THEN [err |-> "RangeExhausted", val |-> 0, pks |-> t]
    ELSE [err |-> "", val |-> t[k][1],
          pks |-> [t EXCEPT ![k] = <<t[k][1] + 1, t[k][2]>>]]

\* A call of get(k) by writer w: the dictionary afterwards, the outcome, and
\* the record of what was obtained.
get_call(w, k) ==
    LET r == GetResult(pks[w], k)
    IN  /\ pks' = [pks EXCEPT ![w] = r.pks]
        /\ ret' = Outcome(w, "get", k, r.val, r.err, 0)
        /\ got' = IF r.err = ""
                  THEN [got EXCEPT ![w][k].vals = Append(@, r.val)]
                  ELSE got
        /\ pending' = IF r.err = ""
                      THEN [pending EXCEPT ![w][k] = @ \cup {r.val}]
                      ELSE pending

get(w, k) ==
    /\ proc[w].pc = "idle"
    /\ get_call(w, k)
    /\ UNCHANGED <<primary_keys, data, rowLock, proc, granted, nreserve, scope, mergeVars>>

\* The store's bulk insert of the rows that were given the identities
\* obtained from get.  A primary key already in the table fails the insert,
\* which then adds nothing.
bulk_insert(w, k) ==
    /\ proc[w].pc = "idle"
    /\ pending[w][k] # {}
    /\ data' = IF pending[w][k] \cap data[k] = {}
               THEN [data EXCEPT ![k] = @ \cup pending[w][k]]
               ELSE data
    /\ pending' = [pending EXCEPT ![w][k] = {}]
    /\ ret' = NoOutcome
    /\ UNCHANGED <<primary_keys, rowLock, pks, proc, granted, got, nreserve, scope, mergeVars>>

\* ------------------------------------------------------------------- DBID

\* The values DBID._id takes: None, an int, or another DBID (by address).
NoneVal == [tag |-> "None", v |-> 0]
IntVal(n) == [tag |-> "int", v |-> n]
DBIDRef(a) == [tag |-> "DBID", v |-> a]

\* What a call of resolved() that exceeds the recursion limit ends with.
RecursionError == [tag |-> "RecursionError", v |-> 0]

resolve_IgnoresFlag(h, a, id, is_new) ==
    [h EXCEPT ![a].id = id, ![a].is_new = TRUE]

\* DBID.resolve(id, is_new), lines 335-339, on the object at address a.
resolve(h, a, id, is_new) ==
    [h EXCEPT ![a].id = id, ![a].is_new = is_new]

DBID_init_SameLocalId(h, nid, id) ==
    resolve(Append(h, [id |-> NoneVal, is_new |-> TRUE, local_id |-> 0]),
            Len(h) + 1, id, TRUE)

\* DBID.__init__(id), lines 330-333: the heap with the new object, whose
\* address is the new length; nid is DBID.next_id before the call.
DBID_init(h, nid, id) ==
    resolve(Append(h, [id |-> NoneVal, is_new |-> TRUE, local_id |-> nid]),
            Len(h) + 1, id, TRUE)

\* DBID.resolved(), lines 341-348: follows _id while it is a DBID.  The
\* recursion has no base case on a chain that returns to an object it has
\* visited: with fuel for as many hops as there are objects, running out of
\* fuel is exactly that case.
RECURSIVE resolvedFrom(_, _, _)
resolvedFrom(h, a, fuel) ==
    IF h[a].id.tag = "DBID"
    THEN IF fuel = 0 THEN RecursionError
         ELSE resolvedFrom(h, h[a].id.v, fuel - 1)
    ELSE h[a].id

resolved(h, a) == resolvedFrom(h, a, Len(h))

\* ----------------------------------------------------- PrepareMixin.merge

\* The kinds whose merge goes by a key: SharedText (lines 587-595), Issue
\* (lines 860-893), Sink (1112-1114) and Source (1133-1135).
MergeKinds == {"SharedText", "Sink", "Source", "Issue"}

\* Kinds with a unique key column: Issue.handle, Sink.name, Source.name.
\* The index on (contents, kind) of SharedText is not unique.
UniqueKey(cls) == cls # "SharedText"

\* The keys candidates and rows of a kind take in the model: the values of
\* the key attributes.
KeysOf(cls) ==
    CASE cls = "SharedText" ->
            {[contents |-> "a", kind |-> "feature"],
             [contents |-> "a", kind |-> "sink"],
             [contents |-> "a:sink", kind |-> "feature"]}
      [] cls = "Issue" -> {[handle |-> "H1"], [handle |-> "H2"]}
      [] OTHER -> {[name |-> "n1"], [name |-> "n2"]}

\* The hash_item of each kind: "%s:%s" % (item.contents, item.kind) for
\* SharedText (line 592), getattr(item, attr.key) for Sink and Source
\* (line 92) and for Issue (line 879).
hash_item(cls, attrs) ==
    CASE cls = "SharedText" -> attrs.contents \o ":" \o attrs.kind
      [] cls = "Issue" -> attrs.handle
      [] OTHER -> attrs.name

\* d[k] = v on a dictionary d.
Put(d, k, v) == [x \in DOMAIN d \cup {k} |-> IF x = k THEN v ELSE d[x]]

EmptyDict == <<>>

\* The orders in which a query may return the rows of S.
Orders(S) ==
    {o \in [1..Cardinality(S) -> S] : \A i, j \in 1..Cardinality(S) :
                                          o[i] = o[j] => i = j}

\* The generator before its first step, and with no batch at all.
NoMerge == [pc |-> "none", pos |-> 0, existing_ids |-> EmptyDict,
            new_items |-> EmptyDict, out |-> <<>>]

\* The candidate at position n of the sequence, and its hash.
ItemAt(n) == batch.rec[batch.items[n]]

HashAt(n) == hash_item(batch.cls, ItemAt(n).attrs)

\* Lines 113-122 and 867: the keys of all candidates, by hash.
PassOneKeys ==
    {ItemAt(n).attrs : n \in 1..Len(batch.items)}

\* Lines 139-141 and 873: the rows whose key attributes equal those of one
\* of the keys (the column comparison of the store, taken as exact).
Matching(keys) == {row \in rows : row.attrs \in keys}

\* Lines 142-144 and 872-875: every row returned becomes a DBID made by
\* process_result_value (lines 395-396, 425-431) and is entered in
\* existing_ids under its hash; a later row of the same hash replaces an
\* earlier one.
RECURSIVE Fetch(_, _, _, _)
Fetch(order, h, nid, existing_ids) ==
    IF order = <<>>
    THEN [heap |-> h, next_id |-> nid, existing_ids |-> existing_ids]
    ELSE LET row == Head(order)
             h2 == DBID_init(h, nid, IntVal(row.id))
         IN  Fetch(Tail(order), h2, nid + 1,
                   Put(existing_ids, hash_item(batch.cls, row.attrs), Len(h2)))

\* The first step of the generator returned by merge: the first pass over
\* the candidates and the queries for existing rows (lines 111-144 and
\* 862-875).  The keys of a sequence of the model fit in one batch of
\* BATCH_SIZE, so there is one query.
merge_start ==
    /\ mg.pc = "new"
    /\ Cardinality(PassOneKeys) <= BATCH_SIZE
    /\ \E order \in Orders(Matching(PassOneKeys)) :
          LET f == Fetch(order, heap, next_id, EmptyDict)
          IN  /\ heap' = f.heap
              /\ next_id' = f.next_id
              /\ mg' = [mg EXCEPT !.pc = "scan", !.pos = 1,
                                  !.existing_ids = f.existing_ids]
    /\ ret' = NoOutcome
    /\ UNCHANGED <<primary_keys, data, rowLock, pks, proc, granted, got,
                   pending, nreserve, scope, batch, rows, prepared, warnings,
                   dep, run, gen, loc, peer>>

SeenInRun_Never(new_items, h) == FALSE

\* "item_hash in new_items" (line 153), "key in new_issues" (line 880).
SeenInRun(new_items, h) == h \in DOMAIN new_items

InStore_Never(existing_ids, h) == FALSE

\* "item_hash in existing_ids" (line 150), "key in existing_ids" (line 886).
InStore(existing_ids, h) == h \in DOMAIN existing_ids

Yield_AtFront(out, r) == <<r>> \o out

\* "yield i": the records the generator has yielded, in order.
Yield(out, r) == Append(out, r)

\* What the loop does with a candidate: "existing", "seen" or "new".
\* _merge_by_keys asks for the store first (lines 150-158); Issue.merge asks
\* for the run first (lines 880-893).
Branch(cls, existing_ids, new_items, h) ==
    IF cls = "Issue"
    THEN IF SeenInRun(new_items, h) THEN "seen"
         ELSE IF InStore(existing_ids, h) THEN "existing" ELSE "new"
    ELSE IF InStore(existing_ids, h) THEN "existing"
         ELSE IF SeenInRun(new_items, h) THEN "seen" ELSE "new"

\* One pass of the second loop (lines 148-159 and 878-893) on the candidate
\* at mg.pos.  After a yield the generator is suspended: under prepare it is
\* resumed once prepare has dealt with the record.
merge_item ==
    LET n == mg.pos
        r == batch.items[n]
        i == batch.rec[r]
        h == HashAt(n)
        b == Branch(batch.cls, mg.existing_ids, mg.new_items, h)
    IN  /\ mg.pc = "scan"
        /\ n <= Len(batch.items)
        /\ heap' =
              CASE b = "existing" ->
                     resolve(heap, i.id, DBIDRef(mg.existing_ids[h]), FALSE)
                [] b = "seen" ->
                     resolve(heap, i.id,
                             DBIDRef(batch.rec[mg.new_items[h]].id), FALSE)
                [] OTHER -> heap
        /\ warnings' = IF b = "seen" /\ batch.cls = "Issue"
                       THEN Append(warnings, i.attrs.handle)
                       ELSE warnings
        /\ mg' = IF b = "new"
                 THEN [mg EXCEPT !.pos = n + 1,
                                 !.new_items = Put(@, h, r),
                                 !.out = Yield(@, r),
                                 !.pc = IF batch.consumer = "prepare"
                                        THEN "yield" ELSE "scan"]
                 ELSE [mg EXCEPT !.pos = n + 1]
        /\ ret' = NoOutcome
        /\ UNCHANGED <<primary_keys, data, rowLock, pks, proc, granted, got,
                       pending, nreserve, scope, batch, rows, next_id,
                       prepared,
                   dep, run, gen, loc, peer>>

\* The second loop is over: the generator is exhausted.
merge_finish ==
    /\ mg.pc = "scan"
    /\ mg.pos > Len(batch.items)
    /\ mg' = [mg EXCEPT !.pc = "done"]
    /\ ret' = NoOutcome
    /\ UNCHANGED <<primary_keys, data, rowLock, pks, proc, granted, got,
                   pending, nreserve, scope, batch, rows, heap, next_id,
                   prepared, warnings,
                   dep, run, gen, loc, peer>>

\* The record most recently yielded.
Yielded == mg.out[Len(mg.out)]

\* to_dict (lines 194-195, 204-205): the fields of the record; the id field
\* is the DBID object itself.
to_dict(r) == [id |-> batch.rec[r].id, attrs |-> batch.rec[r].attrs]

\* The body of the loop of prepare (lines 79-82) for the record merge has
\* just yielded: item.id.resolve(id=pkgen.get(cls), is_new=True), then
\* yield cls.to_dict(item).  An error raised by get ends prepare.
prepare ==
    LET g == GetResult(pks[1], batch.cls)
    IN  /\ mg.pc = "yield"
        /\ get_call(1, batch.cls)
        /\ IF g.err = ""
           THEN /\ heap' = resolve(heap, batch.rec[Yielded].id,
                                   IntVal(g.val), TRUE)
                /\ prepared' = Append(prepared, to_dict(Yielded))
                /\ mg' = [mg EXCEPT !.pc = "scan"]
           ELSE /\ mg' = [mg EXCEPT !.pc = "failed"]
                /\ UNCHANGED <<heap, prepared>>
        /\ UNCHANGED <<primary_keys, data, rowLock, proc, granted, nreserve,
                       scope, batch, rows, next_id, warnings, dep, run, gen, loc, peer>>

\* ----------------------------------------------------- IssueInstance.merge

\* The value of a Python bool field of a record; "unset" before any
\* assignment.
PyBool(b) == IF b THEN "True" ELSE "False"

IsNewIssue_Always(h, i) == PyBool(TRUE)

\* i.issue_id.is_new (line 760).
IsNewIssue(h, i) == PyBool(h[i.issue_id].is_new)

\* The kind is prepared once the prepare of the merged kind, if there is
\* one, is over.
EarlierDone == mg.pc \in {"none", "done"}

\* One pass of the loop of IssueInstance.merge (lines 756-761) on the
\* candidate at dep.pos: i.is_new_issue = i.issue_id.is_new, then yield i.
\* The kind is prepared after the issues (mg.pc = "done").
IssueInstance_merge ==
    LET n == dep.pos
        r == dep.items[n]
    IN  /\ dep.cls = "IssueInstance"
        /\ EarlierDone
        /\ dep.pc = "scan"
        /\ n <= Len(dep.items)
        /\ dep' = [dep EXCEPT
                     !.rec[r].is_new_issue = IsNewIssue(heap, dep.rec[r]),
                     !.out = Append(@, r),
                     !.pos = n + 1,
                     !.pc = "yield"]
        /\ ret' = NoOutcome
        /\ UNCHANGED <<primary_keys, data, rowLock, pks, proc, granted, got,
                       pending, nreserve, scope, batch, rows, heap, next_id,
                       mg, prepared, warnings, run, gen, loc, peer>>

\* The loop of the generator of the kind is over.
dep_finish ==
    /\ EarlierDone
    /\ dep.pc = "scan"
    /\ dep.pos > Len(dep.items)
    /\ dep' = [dep EXCEPT !.pc = "done"]
    /\ ret' = NoOutcome
    /\ UNCHANGED <<primary_keys, data, rowLock, pks, proc, granted, got,
                   pending, nreserve, scope, batch, rows, heap, next_id,
                   mg, prepared, warnings, run, gen, loc, peer>>

HasId_Always(cls) == TRUE

\* hasattr(item, "id") (line 80): IssueInstance has an id column, the
\* association kinds have none.
HasId(cls) == cls # "TraceFrameLeafAssoc"

\* The body of the loop of prepare (lines 79-82) for the record the merge
\* of the kind has just yielded.
prepare_dep ==
    LET g == GetResult(pks[1], dep.cls)
        r == dep.out[Len(dep.out)]
    IN  /\ dep.pc = "yield"
        /\ IF HasId(dep.cls)
           THEN /\ get_call(1, dep.cls)
                /\ IF g.err = ""
                   THEN /\ heap' = resolve(heap, dep.rec[r].id,
                                           IntVal(g.val), TRUE)
                        /\ dep' = [dep EXCEPT !.prepared = Append(@, dep.rec[r]),
                                              !.pc = "scan"]
                   ELSE /\ dep' = [dep EXCEPT !.pc = "failed"]
                        /\ UNCHANGED heap
           ELSE /\ dep' = [dep EXCEPT !.prepared = Append(@, dep.rec[r]),
                                      !.pc = "scan"]
                /\ ret' = NoOutcome
                /\ UNCHANGED <<pks, got, pending, heap>>
        /\ UNCHANGED <<primary_keys, data, rowLock, proc, granted, nreserve,
                       scope, batch, rows, next_id, mg, prepared, warnings,
                       run, gen, loc, peer>>

\* ------------------------------------------------------------ a second run

\* The DBID objects of a batch as the process that builds it leaves them:
\* one made by DBID() for each of n records, in order.
BatchHeap(n) ==
    [a \in 1..n |-> [id |-> NoneVal, is_new |-> TRUE, local_id |-> a - 1]]

\* The value a DBID is written with (process_bind_param, lines 387-393).
BindParam(h, a) == resolved(h, a)

\* The rows the prepared records of the merged kind are inserted as.
InsertedRows ==
    {[id |-> BindParam(heap, prepared[n].id).v, attrs |-> prepared[n].attrs]
       : n \in 1..Len(prepared)}

\* The ids the prepared records of the kind prepared after it are inserted
\* with.
InsertedDepIds ==
    {BindParam(heap, dep.prepared[n].id).v : n \in 1..Len(dep.prepared)}

\* Every prepared record has an integer to be written with.
Insertable ==
    /\ \A n \in 1..Len(prepared) :
          BindParam(heap, prepared[n].id).tag = "int"
    /\ HasId(dep.cls) =>
          \A n \in 1..Len(dep.prepared) :
             BindParam(heap, dep.prepared[n].id).tag = "int"

\* The count reserve is given for a kind of the batch: its candidates.
BatchCount(k) ==
    IF k = batch.cls THEN Len(batch.items)
    ELSE IF k = dep.cls THEN Len(dep.items) ELSE 0

\* The rows prepared by the first run are inserted; then a new process
\* builds the same batch again, reserves the same counts (lines 1854-1859)
\* and starts to prepare it against the same store.
run_again ==
    LET ks == {batch.cls, dep.cls} \cap QUERY_CLASSES
    IN  /\ run = 1
        /\ batch.consumer = "prepare"
        /\ mg.pc = "done"
        /\ dep.pc = "done"
        /\ Insertable
        /\ run' = 2
        /\ rows' = rows \cup InsertedRows
        /\ data' = [k \in Kinds |->
                      IF k = batch.cls
                      THEN data[k] \cup {row.id : row \in InsertedRows}
                      ELSE IF k = dep.cls /\ HasId(k)
                      THEN data[k] \cup InsertedDepIds
                      ELSE data[k]]
        /\ primary_keys' = [k \in Kinds |->
                              IF k \in ks
                              THEN pk_entry(primary_keys[k], BatchCount(k))[2]
                              ELSE primary_keys[k]]
        /\ pks' = [pks EXCEPT ![1] =
                     [k \in Kinds |->
                        IF k \in ks
                        THEN pk_entry(primary_keys[k], BatchCount(k))
                        ELSE pks[1][k]]]
        /\ pending' = [pending EXCEPT ![1] = [k \in Kinds |-> {}]]
        /\ heap' = BatchHeap(dep.objects)
        /\ next_id' = dep.objects
        /\ mg' = [NoMerge EXCEPT !.pc = "new"]
        /\ dep' = [dep EXCEPT !.pc = "scan", !.pos = 1, !.out = <<>>,
                              !.new_items = {}, !.prepared = <<>>,
                              !.rec = [r \in DOMAIN dep.rec |->
                                         IF dep.cls = "IssueInstance"
                                         THEN [dep.rec[r] EXCEPT
                                                 !.is_new_issue = "unset"]
                                         ELSE dep.rec[r]]]
        /\ prepared' = <<>>
        /\ warnings' = <<>>
        /\ ret' = NoOutcome
        /\ UNCHANGED <<rowLock, proc, granted, got, nreserve, scope, batch,
                       gen, loc, peer>>

\* ----------------------------------------------------------- _merge_assocs

assoc_key_Raw(h, i) == <<DBIDRef(i.trace_frame_id), DBIDRef(i.leaf_id)>>

\* Lines 165-167 with id1 = trace_frame_id and id2 = leaf_id (line 1093):
\* key = (r1.resolved(), r2.resolved()).
assoc_key(h, i) == <<resolved(h, i.trace_frame_id), resolved(h, i.leaf_id)>>

\* One pass of the loop of _merge_assocs (lines 164-170) on the candidate
\* at dep.pos; new_items holds the keys entered so far, each with its item.
merge_assocs ==
    LET n == dep.pos
        r == dep.items[n]
        key == assoc_key(heap, dep.rec[r])
    IN  /\ dep.cls = "TraceFrameLeafAssoc"
        /\ EarlierDone
        /\ dep.pc = "scan"
        /\ n <= Len(dep.items)
        /\ IF \A e \in dep.new_items : e.key # key
           THEN dep' = [dep EXCEPT
                          !.new_items = @ \cup {[key |-> key, item |-> r]},
                          !.out = Append(@, r),
                          !.pos = n + 1,
                          !.pc = "yield"]
           ELSE dep' = [dep EXCEPT !.pos = n + 1]
        /\ ret' = NoOutcome
        /\ UNCHANGED <<primary_keys, data, rowLock, pks, proc, granted, got,
                       pending, nreserve, scope, batch, rows, heap, next_id,
                       mg, prepared, warnings, run, gen, loc, peer>>

\* ------------------------------------------------------------- DBID calls

\* A value of a type other than int, None and DBID (a str).
StrVal == [tag |-> "str", v |-> 0]

CheckType_Any(id) == TRUE

\* _check_type, lines 349-353: isinstance(id, (int, type(None), DBID)).
CheckType(id) == id.tag \in {"int", "None", "DBID"}

\* IssueDBID.__init__(id), lines 419-421: super().__init__(id), then
\* self.replace_assocs = False.
IssueDBID_init(h, nid, id) ==
    LET h2 == DBID_init(h, nid, id)
        o == h2[Len(h2)]
    IN  [h2 EXCEPT ![Len(h2)] = [id |-> o.id, is_new |-> o.is_new,
                                 local_id |-> o.local_id,
                                 replace_assocs |-> FALSE]]

\* The outcome of a call on a DBID: the call and its arguments, the value
\* returned (for a constructor the address of the new object) and the error
\* raised ("" for none).
Call(op, obj, arg, flag, val, err) ==
    [op |-> op, obj |-> obj, arg |-> arg, flag |-> flag, val |-> val,
     err |-> err]

\* The arguments a caller passes as id: None, an int, a str, or one of the
\* DBID objects made so far.
IdArgs == {NoneVal, IntVal(1), IntVal(2), StrVal}
          \cup {DBIDRef(a) : a \in 1..Len(heap)}

DBIDFrame ==
    UNCHANGED <<primary_keys, data, rowLock, pks, proc, granted, got, pending,
                nreserve, scope, batch, rows, mg, prepared, warnings, dep,
                run, gen, loc, peer>>

\* DBID(id) and IssueDBID(id), lines 330-333 and 419-421.  The TypeError of
\* _check_type leaves __init__ before local_id is assigned and before
\* DBID.next_id is incremented.
DBID_new(cls, id) ==
    /\ Len(heap) < MaxObjects
    /\ IF CheckType(id)
       THEN /\ heap' = IF cls = "IssueDBID"
                       THEN IssueDBID_init(heap, next_id, id)
                       ELSE DBID_init(heap, next_id, id)
            /\ next_id' = next_id + 1
            /\ ret' = Call(cls, 0, id, TRUE, DBIDRef(Len(heap) + 1), "")
       ELSE /\ ret' = Call(cls, 0, id, TRUE, NoneVal, "TypeError")
            /\ UNCHANGED <<heap, next_id>>
    /\ DBIDFrame

\* a.resolve(id, is_new), lines 335-339; it returns self.
DBID_resolve(a, id, is_new) ==
    /\ IF CheckType(id)
       THEN /\ heap' = resolve(heap, a, id, is_new)
            /\ ret' = Call("resolve", a, id, is_new, DBIDRef(a), "")
       ELSE /\ ret' = Call("resolve", a, id, is_new, NoneVal, "TypeError")
            /\ UNCHANGED heap
    /\ UNCHANGED next_id
    /\ DBIDFrame

\* a.resolved(), lines 341-348.
DBID_resolved(a) ==
    LET v == resolved(heap, a)
    IN  /\ ret' = IF v = RecursionError
                  THEN Call("resolved", a, NoneVal, FALSE, NoneVal,
                            "RecursionError")
                  ELSE Call("resolved", a, NoneVal, FALSE, v, "")
        /\ UNCHANGED <<heap, next_id>>
        /\ DBIDFrame

\* -------------------------------------------------------- DBID arithmetic

\* A Python bool as a value.
BoolVal(b) == [tag |-> "bool", v |-> IF b THEN 1 ELSE 0]

DBID_int_NoDeref(h, a) == h[a].id

\* __int__, lines 356-357: return self.resolved().
DBID_int(h, a) == resolved(h, a)

\* int(other) for the right operand, a DBID or an int.
IntOf(h, other) == IF other.tag = "DBID" THEN DBID_int(h, other.v) ELSE other

ArithOps == {"__add__", "__lt__", "__gt__", "__ge__", "__le__"}

\* Lines 362-375: int(self) + int(other), int(self) < int(other), and so
\* on, for ints x and y.
Arith(op, x, y) ==
    CASE op = "__add__" -> IntVal(x + y)
      [] op = "__lt__" -> BoolVal(x < y)
      [] op = "__gt__" -> BoolVal(x > y)
      [] op = "__ge__" -> BoolVal(x >= y)
      [] op = "__le__" -> BoolVal(x <= y)

\* a + other, a < other, a > other, a >= other, a <= other (lines
\* 362-375).  int() of a DBID whose resolved() is not an int raises
\* TypeError; a DBID that leads back to itself ends in RecursionError.
DBID_op(op, a, other) ==
    LET x == DBID_int(heap, a)
        y == IntOf(heap, other)
    IN  /\ ret' = IF x.tag = "int" /\ y.tag = "int"
                  THEN Call(op, a, other, FALSE, Arith(op, x.v, y.v), "")
                  ELSE IF x = RecursionError \/ (x.tag = "int" /\ y = RecursionError)
                  THEN Call(op, a, other, FALSE, NoneVal, "RecursionError")
                  ELSE Call(op, a, other, FALSE, NoneVal, "TypeError")
        /\ UNCHANGED <<heap, next_id>>
        /\ DBIDFrame

\* -------------------------------------------------- RESTApiSourceGenerator

\* No generator is at work.
NoGen == [pc |-> "none", whitelisted_classes |-> {}, whitelisted_views |-> {},
          views |-> <<>>, pos |-> 0, entry_points |-> {}, out |-> <<>>]

\* A parameter of a view: its name, "*" or "**" for *args and **kwargs, and
\* the name of its annotation ("" for none).
Param(name, kind, annotation) ==
    [name |-> name, kind |-> kind, annotation |-> annotation]

\* A view: its qualified name after the qualifier common to all views of the
\* test, the code points of that name, and its parameters.
View(name, chars, params) == [name |-> name, chars |-> chars, params |-> params]

\* The views of test_compute_models (lines 14-35).
TestViews ==
    [testA |-> View("testA", <<116, 101, 115, 116, 65>>, <<>>),
     testB |-> View("testB", <<116, 101, 115, 116, 66>>,
                    <<Param("x", "", "")>>),
     testC |-> View("testC", <<116, 101, 115, 116, 67>>,
                    <<Param("x", "", "int")>>),
     testD |-> View("testD", <<116, 101, 115, 116, 68>>,
                    <<Param("x", "", "int"), Param("args", "*", "int")>>),
     testE |-> View("testE", <<116, 101, 115, 116, 69>>,
                    <<Param("x", "", "int"), Param("kwargs", "**", "str")>>),
     methodA |-> View("TestClass.methodA",
                      <<84, 101, 115, 116, 67, 108, 97, 115, 115, 46,
                        109, 101, 116, 104, 111, 100, 65>>,
                      <<Param("self", "", ""), Param("x", "", "int")>>),
     methodB |-> View("TestClass.methodB",
                      <<84, 101, 115, 116, 67, 108, 97, 115, 115, 46,
                        109, 101, 116, 104, 111, 100, 66>>,
                      <<Param("self", "", ""), Param("args", "*", "str")>>)]

\* all_views (lines 37-45).
all_views ==
    <<TestViews.testA, TestViews.testB, TestViews.testC, TestViews.testD,
      TestViews.testE, TestViews.methodA, TestViews.methodB>>

\* source (line 47).
source == "TaintSource[UserControlled]"

\* The lists the test expects (lines 48-59 and 60-75), the qualifier left
\* out of the names.
Expected_NoWhitelist ==
    <<"def TestClass.methodA(self: " \o source \o ", x: " \o source \o "): ...",
      "def TestClass.methodB(self: " \o source \o ", *args: " \o source \o "): ...",
      "def testA(): ...",
      "def testB(x: " \o source \o "): ...",
      "def testC(x: " \o source \o "): ...",
      "def testD(x: " \o source \o ", *args: " \o source \o "): ...",
      "def testE(x: " \o source \o ", **kwargs: " \o source \o "): ...">>

Expected_IntAndTestA ==
    <<"def TestClass.methodA(self: " \o source \o ", x): ...",
      "def TestClass.methodB(self: " \o source \o ", *args: " \o source \o "): ...",
      "def testB(x: " \o source \o "): ...",
      "def testC(x): ...",
      "def testD(x, *args): ...",
      "def testE(x, **kwargs: " \o source \o "): ...">>

Tainted_Always(p, whitelisted_classes) == TRUE

\* A parameter is a taint source unless its annotation is whitelisted.
Tainted(p, whitelisted_classes) == p.annotation \notin whitelisted_classes

\* The text of a parameter in a model.
ParamText(p, whitelisted_classes) ==
    p.kind \o p.name \o
    (IF Tainted(p, whitelisted_classes) THEN ": " \o source ELSE "")

\* ", ".join of the texts of the parameters from position n on.
RECURSIVE JoinParams(_, _, _)
JoinParams(params, n, whitelisted_classes) ==
    IF n > Len(params) THEN ""
    ELSE ParamText(params[n], whitelisted_classes) \o
         (IF n < Len(params) THEN ", " ELSE "") \o
         JoinParams(params, n + 1, whitelisted_classes)

\* The model of a view: the line, with the parameters as they were emitted
\* and the code points the line is ordered by (those of "def ", the same in
\* every line, left out; 40 is the "(" that ends the name).
ModelOf(v, whitelisted_classes) ==
    [name |-> v.name,
     key |-> Append(v.chars, 40),
     params |-> [n \in 1..Len(v.params) |->
                   [text |-> ParamText(v.params[n], whitelisted_classes),
                    tainted |-> Tainted(v.params[n], whitelisted_classes)]],
     line |-> "def " \o v.name \o "("
              \o JoinParams(v.params, 1, whitelisted_classes) \o "): ..."]

\* The order of Python strings, on sequences of code points.
RECURSIVE StrLess(_, _)
StrLess(s, t) ==
    IF t = <<>> THEN FALSE
    ELSE IF s = <<>> THEN TRUE
    ELSE IF Head(s) # Head(t) THEN Head(s) < Head(t)
    ELSE StrLess(Tail(s), Tail(t))

RECURSIVE Sorted_Reversed(_)
Sorted_Reversed(S) ==
    IF S = {} THEN <<>>
    ELSE LET m == CHOOSE x \in S : \A y \in S \ {x} : StrLess(y.key, x.key)
         IN  <<m>> \o Sorted_Reversed(S \ {m})

\* sorted(entry_points).
RECURSIVE Sorted(_)
Sorted(S) ==
    IF S = {} THEN <<>>
    ELSE LET m == CHOOSE x \in S : \A y \in S \ {x} : StrLess(x.key, y.key)
         IN  <<m>> \o Sorted(S \ {m})

GenFrame ==
    UNCHANGED <<primary_keys, data, rowLock, pks, proc, granted, got, pending,
                nreserve, scope, batch, rows, heap, next_id, mg, prepared,
                warnings, dep, run, loc, peer>>

\* One pass of the loop of compute_models over the views: a view whose
\* qualified name is whitelisted is passed over, the model of any other
\* view is added to the set of models.
compute_models_view ==
    LET v == gen.views[gen.pos]
    IN  /\ gen.pc = "scan"
        /\ gen.pos <= Len(gen.views)
        /\ gen' = [gen EXCEPT
                     !.pos = @ + 1,
                     !.entry_points =
                        IF v.name \in gen.whitelisted_views THEN @
                        ELSE @ \cup {ModelOf(v, gen.whitelisted_classes)}]
        /\ ret' = NoOutcome
        /\ GenFrame

\* compute_models returns the models in sorted order.
compute_models_return ==
    /\ gen.pc = "scan"
    /\ gen.pos > Len(gen.views)
    /\ gen' = [gen EXCEPT !.pc = "done", !.out = Sorted(gen.entry_points)]
    /\ ret' = NoOutcome
    /\ GenFrame

\* --------------------------------------------------------- SourceLocation

\* Python strings are sequences of code points; a str value and a list.
StrOf(chars) == [tag |-> "str", v |-> chars]
ListOf(items) == [tag |-> "list", v |-> items]

\* "|" and ",".
Bar == <<124>>
Comma == <<44>>

\* The truth value of x in "end_column or self.begin_column" (line 218).
Truthy(x) ==
    CASE x.tag = "None" -> FALSE
      [] x.tag = "int" -> x.v # 0
      [] x.tag = "str" -> x.v # <<>>
      [] OTHER -> TRUE

\* SourceLocation.__init__ (lines 215-218).
SourceLocation(line_no, begin_column, end_column) ==
    [line_no |-> line_no, begin_column |-> begin_column,
     end_column |-> IF Truthy(end_column) THEN end_column ELSE begin_column]

\* == on ints and strs: an int never equals a str.
PyEq(x, y) == x.tag = y.tag /\ x.v = y.v

\* SourceLocation.__eq__ (lines 220-225).
SourceLocation_eq(self, other) ==
    /\ PyEq(self.line_no, other.line_no)
    /\ PyEq(self.begin_column, other.begin_column)
    /\ PyEq(self.end_column, other.end_column)

\* str(n) for an int n >= 0: its decimal digits.
RECURSIVE Digits(_)
Digits(n) == IF n < 10 THEN <<48 + n>> ELSE Digits(n \div 10) \o <<48 + (n % 10)>>

\* str(x) for an int or a str (line 236).
PyStr(x) == IF x.tag = "int" THEN Digits(x.v) ELSE x.v

\* int(s) for a string of decimal digits (line 285).
RECURSIVE PyInt(_)
PyInt(chars) ==
    IF chars = <<>> THEN 0
    ELSE 10 * PyInt(SubSeq(chars, 1, Len(chars) - 1)) + (chars[Len(chars)] - 48)

\* sep.join(parts)
RECURSIVE Join(_, _)
Join(sep, parts) ==
    IF parts = <<>> THEN <<>>
    ELSE IF Len(parts) = 1 THEN parts[1]
    ELSE parts[1] \o sep \o Join(sep, Tail(parts))

\* s.split(sep) for a separator of one character: "".split(sep) is [""].
RECURSIVE Split(_, _)
Split(s, sep) ==
    IF \A n \in 1..Len(s) : s[n] # sep[1]
    THEN <<s>>
    ELSE LET n == CHOOSE n \in 1..Len(s) :
                     s[n] = sep[1] /\ \A m \in 1..(n - 1) : s[m] # sep[1]
         IN  <<SubSeq(s, 1, n - 1)>> \o Split(SubSeq(s, n + 1, Len(s)), sep)

\* SourceLocation.to_string (lines 233-237).
SourceLocation_to_string(location) ==
    Join(Bar, <<PyStr(location.line_no), PyStr(location.begin_column),
                PyStr(location.end_column)>>)

\* "Invalid location string": the check of line 230 fails.
InvalidLocationString == [tag |-> "InvalidLocationString", v |-> 0]

\* SourceLocation.from_string (lines 227-231): the three fields are passed
\* on as the strings split returned.
SourceLocation_from_string(location_string) ==
    LET location_points == Split(location_string, Bar)
    IN  IF Len(location_points) # 3 THEN InvalidLocationString
        ELSE SourceLocation(StrOf(location_points[1]),
                            StrOf(location_points[2]),
                            StrOf(location_points[3]))

\* SourceLocationType.process_bind_param (lines 268-274) and
\* process_result_value (lines 276-288): the fields are read with int.
SourceLocationType_bind(value) ==
    IF value.tag = "None" THEN NoneVal
    ELSE StrOf(SourceLocation_to_string(value.v))

SourceLocationType_result(value) ==
    IF value.tag = "None" THEN NoneVal
    ELSE LET p == Split(value.v, Bar)
         IN  [tag |-> "loc",
              v |-> SourceLocation(IntVal(PyInt(p[1])), IntVal(PyInt(p[2])),
                                   IntVal(PyInt(p[3])))]

\* SourceLocationsType.process_bind_param (lines 299-302) and
\* process_result_value (lines 304-309).
SourceLocationsType_bind(value) ==
    IF value.tag = "None" THEN NoneVal
    ELSE StrOf(Join(Comma, [n \in 1..Len(value.v) |->
                              SourceLocation_to_string(value.v[n])]))

SourceLocationsType_result(value) ==
    IF value.tag = "None" \/ value.v = <<>> THEN ListOf(<<>>)
    ELSE LET locations == Split(value.v, Comma)
         IN  ListOf([n \in 1..Len(locations) |->
                       SourceLocation_from_string(locations[n])])

\* No column is written.
NoLoc == [pc |-> "none", type |-> "", value |-> NoneVal, stored |-> NoneVal,
          result |-> NoneVal]

LocFrame ==
    UNCHANGED <<primary_keys, data, rowLock, pks, proc, granted, got, pending,
                nreserve, scope, batch, rows, heap, next_id, mg, prepared,
                warnings, dep, run, gen, peer>>

\* The value is written: process_bind_param of the type of the column.
process_bind_param ==
    /\ loc.pc = "new"
    /\ loc' = [loc EXCEPT
                 !.pc = "stored",
                 !.stored = IF loc.type = "SourceLocationType"
                            THEN SourceLocationType_bind(loc.value)
                            ELSE SourceLocationsType_bind(loc.value)]
    /\ ret' = NoOutcome
    /\ LocFrame

\* The column is read back: process_result_value of its type.
process_result_value ==
    /\ loc.pc = "stored"
    /\ loc' = [loc EXCEPT
                 !.pc = "read",
                 !.result = IF loc.type = "SourceLocationType"
                            THEN SourceLocationType_result(loc.stored)
                            ELSE SourceLocationsType_result(loc.stored)]
    /\ ret' = NoOutcome
    /\ LocFrame

\* ------------------------------------------------------ a concurrent batch

\* No second process.
NoPeer == [pc |-> "none", pos |-> 0, existing_ids |-> EmptyDict,
            new_items |-> EmptyDict, out |-> <<>>, items |-> <<>>,
            rec |-> <<>>, heap |-> <<>>, next_id |-> 0, prepared |-> <<>>]

\* The second process prepares candidates of the same kind (batch.cls) with
\* its own DBID objects (peer.heap) and its own range table (pks[2]); the
\* store (rows, primary_keys) is the one both processes use.
PeerFrame ==
    UNCHANGED <<primary_keys, data, rowLock, proc, granted, nreserve, scope,
                batch, rows, heap, next_id, mg, prepared, warnings, dep, run,
                gen, loc>>

\* The prepare of a process starts once its reserve has returned with a
\* range for the kind.
Reserved(w) == proc[w].pc = "idle" /\ batch.cls \in proc[w].stored

\* The keys of all candidates of the second process (lines 113-122).
PeerKeys == {peer.rec[peer.items[n]].attrs : n \in 1..Len(peer.items)}

\* The first step of the generator of the second process (lines 111-144
\* and 862-875): the query sees the rows that are in the table now.
peer_merge_start ==
    /\ peer.pc = "new"
    /\ Reserved(2)
    /\ \E order \in Orders(Matching(PeerKeys)) :
          LET f == Fetch(order, peer.heap, peer.next_id, EmptyDict)
          IN  peer' = [peer EXCEPT !.pc = "scan", !.pos = 1,
                                     !.heap = f.heap,
                                     !.next_id = f.next_id,
                                     !.existing_ids = f.existing_ids]
    /\ ret' = NoOutcome
    /\ UNCHANGED <<pks, got, pending>>
    /\ PeerFrame

\* One pass of the second loop (lines 148-159 and 878-893) in the second
\* process.
peer_merge_item ==
    LET n == peer.pos
        r == peer.items[n]
        i == peer.rec[r]
        h == hash_item(batch.cls, i.attrs)
        b == Branch(batch.cls, peer.existing_ids, peer.new_items, h)
    IN  /\ peer.pc = "scan"
        /\ n <= Len(peer.items)
        /\ peer' =
              CASE b = "existing" ->
                     [peer EXCEPT
                        !.pos = n + 1,
                        !.heap = resolve(@, i.id,
                                         DBIDRef(peer.existing_ids[h]), FALSE)]
                [] b = "seen" ->
                     [peer EXCEPT
                        !.pos = n + 1,
                        !.heap = resolve(@, i.id,
                                         DBIDRef(peer.rec[peer.new_items[h]].id),
                                         FALSE)]
                [] OTHER ->
                     [peer EXCEPT !.pos = n + 1,
                                   !.new_items = Put(@, h, r),
                                   !.out = Yield(@, r),
                                   !.pc = "yield"]
        /\ ret' = NoOutcome
        /\ UNCHANGED <<pks, got, pending>>
        /\ PeerFrame

\* The second loop of the second process is over.
peer_merge_finish ==
    /\ peer.pc = "scan"
    /\ peer.pos > Len(peer.items)
    /\ peer' = [peer EXCEPT !.pc = "done"]
    /\ ret' = NoOutcome
    /\ UNCHANGED <<pks, got, pending>>
    /\ PeerFrame

\* The body of the loop of prepare (lines 79-82) in the second process.
peer_prepare ==
    LET g == GetResult(pks[2], batch.cls)
        r == peer.out[Len(peer.out)]
    IN  /\ peer.pc = "yield"
        /\ get_call(2, batch.cls)
        /\ peer' =
              IF g.err = ""
              THEN [peer EXCEPT
                      !.heap = resolve(@, peer.rec[r].id, IntVal(g.val), TRUE),
                      !.prepared = Append(@, peer.rec[r]),
                      !.pc = "scan"]
              ELSE [peer EXCEPT !.pc = "failed"]
        /\ PeerFrame

\* The rows the prepared records of the second process are inserted as.
PeerInsertedRows ==
    {[id |-> BindParam(peer.heap, peer.prepared[n].id).v,
      attrs |-> peer.prepared[n].attrs] : n \in 1..Len(peer.prepared)}

\* The table of the kind after the insert of the rows new: the insert fails,
\* and adds nothing, on an id that is in the table or, where the key column
\* is unique, on a key that is.
InsertAll(new) ==
    IF \E x \in new, y \in rows :
          x.id = y.id \/ (UniqueKey(batch.cls) /\ x.attrs = y.attrs)
    THEN rows
    ELSE rows \cup new

\* The rows a process has prepared are inserted, once its prepare is over.
insert_prepared(w) ==
    /\ pending[w][batch.cls] # {}
    /\ IF w = 1 THEN mg.pc = "done" /\ Insertable ELSE peer.pc = "done"
    /\ rows' = InsertAll(IF w = 1 THEN InsertedRows ELSE PeerInsertedRows)
    /\ data' = [data EXCEPT ![batch.cls] = {row.id : row \in rows'}]
    /\ pending' = [pending EXCEPT ![w][batch.cls] = {}]
    /\ ret' = NoOutcome
    /\ UNCHANGED <<primary_keys, rowLock, pks, proc, granted, got, nreserve,
                   scope, batch, heap, next_id, mg, prepared, warnings, dep,
                   run, gen, loc, peer>>

\* ------------------------------------------------------------ specification

\* The behaviours of Spec: both writers, on the registered kind Issue, with
\* MaxReserves calls of reserve between them.
ConcurrentScope ==
    [writers |-> Writers, kinds |-> {"Issue"}, reserves |-> MaxReserves]

\* The behaviours of SpecSeq: one writer, on every kind, with one call of
\* reserve (which may name several kinds).
SequentialScope ==
    [writers |-> {1}, kinds |-> {"Issue", "SharedText", "TraceFrameLeafAssoc"},
     reserves |-> 1]

\* No kind is prepared after the merged kind.
NoDep == [cls |-> "", pc |-> "none", pos |-> 0, items |-> <<>>, rec |-> <<>>,
          new_items |-> {}, out |-> <<>>, prepared |-> <<>>, objects |-> 0]

\* No batch is being merged.
NoBatch == [cls |-> "", consumer |-> "", items |-> <<>>, rec |-> <<>>]

\* A store in which each data table in use holds rows 1..n and the
\* primary_keys row of a kind is missing or holds the table's maximum.
InitStore(sc) ==
    /\ scope = sc
    /\ \E n \in [Kinds -> 0..MaxInitRows] :
          /\ \A k \in Kinds \ (QUERY_CLASSES \cap scope.kinds) : n[k] = 0
          /\ data = [k \in Kinds |-> 1..n[k]]
          /\ \E has \in SUBSET (QUERY_CLASSES \cap scope.kinds) :
                primary_keys = [k \in Kinds |-> IF k \in has THEN n[k] ELSE NoRow]
    /\ rowLock = [k \in Kinds |-> NoWriter]
    /\ pks = [w \in Writers |-> [k \in Kinds |-> NoRange]]
    /\ proc = [w \in Writers |-> Idle]
    /\ ret = NoOutcome
    /\ granted = EmptyBag
    /\ got = [w \in Writers |-> [k \in Kinds |-> NoneGot]]
    /\ pending = [w \in Writers |-> [k \in Kinds |-> {}]]
    /\ nreserve = 0
    /\ batch = NoBatch
    /\ rows = {}
    /\ heap = <<>>
    /\ next_id = 0
    /\ mg = NoMerge
    /\ prepared = <<>>
    /\ warnings = <<>>
    /\ dep = NoDep
    /\ run = 1

Init == InitStore(ConcurrentScope) /\ gen = NoGen /\ loc = NoLoc /\ peer = NoPeer

InitSeq == InitStore(SequentialScope) /\ gen = NoGen /\ loc = NoLoc /\ peer = NoPeer

Next ==
    \E w \in scope.writers :
        \/ \E sc \in SUBSET scope.kinds, ic \in ItemCountsInputs(scope.kinds),
              ul \in BOOLEAN :
              reserve(w, sc, ic, ul)
        \/ lock_pk_with_retries(w)
        \/ resync(w)
        \/ extend(w)
        \/ \E k \in scope.kinds : get(w, k)
        \/ \E k \in scope.kinds : bulk_insert(w, k)

Spec == Init /\ [][Next]_vars

SpecSeq == InitSeq /\ [][Next]_vars

\* The behaviours of SpecMerge: one writer merges, or prepares, a candidate
\* sequence of one key-merged kind against a table of that kind.
MergeScope(cls) == [writers |-> {1}, kinds |-> {cls}, reserves |-> 0]

\* The ids of the rows a table may hold before the batch.
StoredIds == {41 + n : n \in 1..MaxStored}

\* The tables of kind cls: rows with distinct ids, and with distinct keys
\* where the key column is unique.
Tables(cls) ==
    {t \in SUBSET [id : StoredIds, attrs : KeysOf(cls)] :
        \A x, y \in t : x # y =>
            /\ x.id # y.id
            /\ UniqueKey(cls) => x.attrs # y.attrs}

\* The candidate sequences: records are numbered in the order in which they
\* first occur, and a record may occur more than once.
ItemSeqs ==
    UNION {{s \in [1..n -> 1..MaxItems] :
              \A i \in 1..n :
                 s[i] <= 1 + SetMax({s[j] : j \in 1..(i - 1)})}
           : n \in 0..MaxItems}

\* The records of a candidate sequence.
RecordsOf(s) == 1..SetMax({s[i] : i \in 1..Len(s)})

\* Every record was built with a DBID of its own by DBID(), lines 330-333,
\* record r with the r-th DBID of the process; the table of the kind holds
\* any rows; under prepare the allocator holds a range reserved for the
\* kind above the largest id of the table.
InitMerge ==
    \E cls \in MergeKinds, consumer \in {"merge", "prepare"},
       s \in ItemSeqs, count \in 0..MaxItems :
       \E t \in Tables(cls), attrs \in [RecordsOf(s) -> KeysOf(cls)] :
          LET top == SetMax({row.id : row \in t})
          IN
          /\ consumer = "merge" => count = 0
          /\ scope = MergeScope(cls)
          /\ batch = [cls |-> cls, consumer |-> consumer, items |-> s,
                      rec |-> [r \in RecordsOf(s) |->
                                 [id |-> r, attrs |-> attrs[r]]]]
          /\ rows = t
          /\ heap = [r \in RecordsOf(s) |->
                       [id |-> NoneVal, is_new |-> TRUE, local_id |-> r - 1]]
          /\ next_id = Cardinality(RecordsOf(s))
          /\ mg = [NoMerge EXCEPT !.pc = "new"]
          /\ prepared = <<>>
          /\ warnings = <<>>
          /\ dep = NoDep
          /\ run = 1
          /\ gen = NoGen /\ loc = NoLoc /\ peer = NoPeer
          /\ data = [k \in Kinds |-> IF k = cls THEN {row.id : row \in t}
                                      ELSE {}]
          /\ primary_keys = [k \in Kinds |->
                               IF k = cls /\ consumer = "prepare"
                               THEN top + count ELSE NoRow]
          /\ pks = [w \in Writers |-> [k \in Kinds |->
                       IF w = 1 /\ k = cls /\ consumer = "prepare"
                       THEN pk_entry(top, count) ELSE NoRange]]
          /\ rowLock = [k \in Kinds |-> NoWriter]
          /\ proc = [w \in Writers |-> Idle]
          /\ ret = NoOutcome
          /\ granted = EmptyBag
          /\ got = [w \in Writers |-> [k \in Kinds |-> NoneGot]]
          /\ pending = [w \in Writers |-> [k \in Kinds |-> {}]]
          /\ nreserve = 0

NextMerge ==
    \/ merge_start
    \/ merge_item
    \/ merge_finish
    \/ prepare

SpecMerge == InitMerge /\ [][NextMerge]_vars

\* The candidate sequences of the kind prepared after the merged kind.
DepSeqs == {s \in ItemSeqs : Len(s) <= MaxDeps}

\* The behaviours of SpecBatch: one writer prepares a batch of issues and
\* then the issue instances that refer to them, each instance built with a
\* DBID of its own and with the DBID of the record of its issue as
\* issue_id; the rows are inserted and the same batch is run once more.
\* The allocator holds a range for each of the two kinds, reserved for as
\* many identities as the kind has candidates.
InitBatch ==
    \E s \in ItemSeqs, ds \in DepSeqs :
       \E t \in Tables("Issue"), attrs \in [RecordsOf(s) -> KeysOf("Issue")],
          of \in [RecordsOf(ds) -> RecordsOf(s)] :
          LET top == SetMax({row.id : row \in t})
              nrec == Cardinality(RecordsOf(s))
              ninst == Cardinality(RecordsOf(ds))
              range == [k \in Kinds |->
                         IF k = "Issue" THEN pk_entry(top, Len(s))
                         ELSE IF k = "IssueInstance" THEN pk_entry(0, Len(ds))
                         ELSE NoRange]
          IN
          /\ scope = [writers |-> {1}, kinds |-> {"Issue", "IssueInstance"},
                      reserves |-> 0]
          /\ batch = [cls |-> "Issue", consumer |-> "prepare", items |-> s,
                      rec |-> [r \in RecordsOf(s) |->
                                 [id |-> r, attrs |-> attrs[r]]]]
          /\ rows = t
          /\ heap = BatchHeap(nrec + ninst)
          /\ next_id = nrec + ninst
          /\ mg = [NoMerge EXCEPT !.pc = "new"]
          /\ prepared = <<>>
          /\ warnings = <<>>
          /\ dep = [NoDep EXCEPT
                      !.cls = "IssueInstance", !.pc = "scan", !.pos = 1,
                      !.items = ds, !.objects = nrec + ninst,
                      !.rec = [i \in RecordsOf(ds) |->
                                 [id |-> nrec + i, issue_id |-> of[i],
                                  is_new_issue |-> "unset"]]]
          /\ run = 1
          /\ gen = NoGen /\ loc = NoLoc /\ peer = NoPeer
          /\ data = [k \in Kinds |-> IF k = "Issue" THEN {row.id : row \in t}
                                      ELSE {}]
          /\ primary_keys = [k \in Kinds |->
                               IF range[k] = NoRange THEN NoRow
                               ELSE range[k][2]]
          /\ pks = [w \in Writers |-> [k \in Kinds |->
                       IF w = 1 THEN range[k] ELSE NoRange]]
          /\ rowLock = [k \in Kinds |-> NoWriter]
          /\ proc = [w \in Writers |-> Idle]
          /\ ret = NoOutcome
          /\ granted = EmptyBag
          /\ got = [w \in Writers |-> [k \in Kinds |-> NoneGot]]
          /\ pending = [w \in Writers |-> [k \in Kinds |-> {}]]
          /\ nreserve = 0

NextBatch ==
    \/ merge_start
    \/ merge_item
    \/ merge_finish
    \/ prepare
    \/ IssueInstance_merge
    \/ prepare_dep
    \/ dep_finish
    \/ run_again

SpecBatch == InitBatch /\ [][NextBatch]_vars

\* The DBID objects the endpoints of association candidates are taken
\* from: each holds None, an int, or a reference to an earlier object.
EndpointHeaps ==
    {h \in [1..MaxEndpoints ->
               {NoneVal, IntVal(1), IntVal(2)}
               \cup {DBIDRef(b) : b \in 1..MaxEndpoints}] :
        \A a \in 1..MaxEndpoints : h[a].tag = "DBID" => h[a].v < a}

\* The behaviours of SpecAssoc: one writer prepares a candidate sequence of
\* TraceFrameLeafAssoc records whose endpoints are DBID objects of the heap.
InitAssoc ==
    \E s \in ItemSeqs, h \in EndpointHeaps :
       \E tf \in [RecordsOf(s) -> 1..MaxEndpoints],
          leaf \in [RecordsOf(s) -> 1..MaxEndpoints] :
          /\ scope = MergeScope("TraceFrameLeafAssoc")
          /\ batch = NoBatch
          /\ rows = {}
          /\ heap = [a \in 1..MaxEndpoints |->
                       [id |-> h[a], is_new |-> TRUE, local_id |-> a - 1]]
          /\ next_id = MaxEndpoints
          /\ mg = NoMerge
          /\ prepared = <<>>
          /\ warnings = <<>>
          /\ dep = [NoDep EXCEPT
                      !.cls = "TraceFrameLeafAssoc", !.pc = "scan", !.pos = 1,
                      !.items = s, !.objects = MaxEndpoints,
                      !.rec = [i \in RecordsOf(s) |->
                                 [trace_frame_id |-> tf[i],
                                  leaf_id |-> leaf[i]]]]
          /\ run = 1
          /\ gen = NoGen /\ loc = NoLoc /\ peer = NoPeer
          /\ data = [k \in Kinds |-> {}]
          /\ primary_keys = [k \in Kinds |-> NoRow]
          /\ pks = [w \in Writers |-> [k \in Kinds |-> NoRange]]
          /\ rowLock = [k \in Kinds |-> NoWriter]
          /\ proc = [w \in Writers |-> Idle]
          /\ ret = NoOutcome
          /\ granted = EmptyBag
          /\ got = [w \in Writers |-> [k \in Kinds |-> NoneGot]]
          /\ pending = [w \in Writers |-> [k \in Kinds |-> {}]]
          /\ nreserve = 0

NextAssoc ==
    \/ merge_assocs
    \/ prepare_dep
    \/ dep_finish

SpecAssoc == InitAssoc /\ [][NextAssoc]_vars

\* The behaviours of SpecDBID: a caller makes DBID and IssueDBID objects and
\* calls resolve and resolved on them, with arguments of every type, and
\* adds and compares them.
DBIDScope == [writers |-> {}, kinds |-> {}, reserves |-> 0]

InitDBID == InitStore(DBIDScope) /\ gen = NoGen /\ loc = NoLoc /\ peer = NoPeer

NextDBID ==
    \/ \E cls \in {"DBID", "IssueDBID"}, id \in IdArgs : DBID_new(cls, id)
    \/ \E a \in 1..Len(heap), id \in IdArgs, is_new \in BOOLEAN :
          DBID_resolve(a, id, is_new)
    \/ \E a \in 1..Len(heap) : DBID_resolved(a)
    \/ \E op \in ArithOps, a \in 1..Len(heap),
          other \in {IntVal(1), IntVal(2)} \cup {DBIDRef(b) : b \in 1..Len(heap)} :
          DBID_op(op, a, other)

SpecDBID == InitDBID /\ [][NextDBID]_vars

\* The lists of views given to compute_models: every list of up to MaxViews
\* views of the test, and all_views itself.
ViewLists ==
    {all_views}
    \cup UNION {[1..n -> {all_views[i] : i \in 1..Len(all_views)}] :
                 n \in 0..MaxViews}

\* The behaviours of SpecREST: RESTApiSourceGenerator(whitelisted_classes,
\* whitelisted_views).compute_models(views), with the whitelists of the
\* test among others.
InitREST ==
    \E views \in ViewLists, wc \in SUBSET {"int", "str"},
       wv \in {{}, {"testA"}, {"testE"}, {"TestClass.methodA", "testB"}} :
       /\ InitStore(DBIDScope)
       /\ gen = [NoGen EXCEPT !.pc = "scan", !.pos = 1, !.views = views,
                              !.whitelisted_classes = wc,
                              !.whitelisted_views = wv]
       /\ loc = NoLoc /\ peer = NoPeer

NextREST ==
    \/ compute_models_view
    \/ compute_models_return

SpecREST == InitREST /\ [][NextREST]_vars

\* The source locations written: SourceLocation(line_no, begin_column) and
\* SourceLocation(line_no, begin_column, end_column) with integer fields.
LineNos == {1, 12}

Columns == 0..MaxColumn

Locations ==
    {SourceLocation(IntVal(l), IntVal(b), e) :
        l \in LineNos, b \in Columns,
        e \in {NoneVal} \cup {IntVal(c) : c \in Columns}}

\* The behaviours of SpecLoc: a location, or None, is written to a column
\* of type SourceLocationType, or a list of up to MaxLocations locations,
\* or None, to a column of type SourceLocationsType, and is read back.
InitLoc ==
    /\ InitStore(DBIDScope)
    /\ gen = NoGen
    /\ peer = NoPeer
    /\ \/ \E type \in {"SourceLocationType", "SourceLocationsType"} :
             loc = [NoLoc EXCEPT !.pc = "new", !.type = type]
       \/ \E l \in Locations :
             loc = [NoLoc EXCEPT !.pc = "new", !.type = "SourceLocationType",
                                 !.value = [tag |-> "loc", v |-> l]]
       \/ \E n \in 0..MaxLocations : \E s \in [1..n -> Locations] :
             loc = [NoLoc EXCEPT !.pc = "new", !.type = "SourceLocationsType",
                                 !.value = ListOf(s)]

NextLoc ==
    \/ process_bind_param
    \/ process_result_value

SpecLoc == InitLoc /\ [][NextLoc]_vars

\* The item_counts of a batch of n candidates of kind cls.
CountsOf(cls, n) ==
    [given |-> TRUE, entry |-> [k \in Kinds |-> IF k = cls THEN n ELSE NoEntry]]

\* The behaviours of SpecRace: two processes, each with a batch of up to
\* MaxRaceItems candidates of the same kind, on one store.  Each reserves
\* a range for its candidates, with or without use_lock, then prepares its
\* batch, and its rows are inserted; the steps of the two interleave.
InitRace ==
    \E cls \in {"Sink", "Issue"},
       n1 \in 1..MaxRaceItems, n2 \in 1..MaxRaceItems :
       \E t \in {x \in Tables(cls) : Cardinality(x) <= 1},
          attrs1 \in [1..n1 -> KeysOf(cls)], attrs2 \in [1..n2 -> KeysOf(cls)],
          has \in BOOLEAN :
          LET top == SetMax({row.id : row \in t})
          IN
          /\ scope = [writers |-> Writers, kinds |-> {cls}, reserves |-> 2]
          /\ batch = [cls |-> cls, consumer |-> "prepare",
                      items |-> [n \in 1..n1 |-> n],
                      rec |-> [r \in 1..n1 |-> [id |-> r, attrs |-> attrs1[r]]]]
          /\ rows = t
          /\ heap = BatchHeap(n1)
          /\ next_id = n1
          /\ mg = [NoMerge EXCEPT !.pc = "new"]
          /\ peer = [NoPeer EXCEPT
                        !.pc = "new",
                        !.items = [n \in 1..n2 |-> n],
                        !.rec = [r \in 1..n2 |-> [id |-> r, attrs |-> attrs2[r]]],
                        !.heap = BatchHeap(n2),
                        !.next_id = n2]
          /\ prepared = <<>>
          /\ warnings = <<>>
          /\ dep = [NoDep EXCEPT !.pc = "done"]
          /\ run = 1
          /\ gen = NoGen
          /\ loc = NoLoc
          /\ data = [k \in Kinds |-> IF k = cls THEN {row.id : row \in t}
                                      ELSE {}]
          /\ primary_keys = [k \in Kinds |->
                               IF k = cls /\ has THEN top ELSE NoRow]
          /\ pks = [w \in Writers |-> [k \in Kinds |-> NoRange]]
          /\ rowLock = [k \in Kinds |-> NoWriter]
          /\ proc = [w \in Writers |-> Idle]
          /\ ret = NoOutcome
          /\ granted = EmptyBag
          /\ got = [w \in Writers |-> [k \in Kinds |-> NoneGot]]
          /\ pending = [w \in Writers |-> [k \in Kinds |-> {}]]
          /\ nreserve = 0

NextRace ==
    \/ \E w \in Writers, ul \in BOOLEAN :
          /\ proc[w].classes = {}
          /\ reserve(w, {batch.cls},
                     CountsOf(batch.cls,
                              IF w = 1 THEN Len(batch.items)
                              ELSE Len(peer.items)), ul)
    \/ \E w \in Writers : lock_pk_with_retries(w)
    \/ \E w \in Writers : resync(w)
    \/ \E w \in Writers : extend(w)
    \/ Reserved(1) /\ merge_start
    \/ merge_item
    \/ merge_finish
    \/ prepare
    \/ peer_merge_start
    \/ peer_merge_item
    \/ peer_merge_finish
    \/ peer_prepare
    \/ \E w \in Writers : insert_prepared(w)

SpecRace == InitRace /\ [][NextRace]_vars

\* --------------------------------------------------- allocator properties

\* The identities of a granted range (none when count was 0).
Ids(g) == g.next..g.max

\* C1: the ranges granted for one kind are pairwise disjoint, whatever the
\* interleaving of the reserve calls, their use_lock and the rows inserted
\* so far: no identity lies in two grants.
C1_RangesDisjoint ==
    \A g \in BagToSet(granted), h \in BagToSet(granted) :
        (g.cls = h.cls /\ (g # h \/ CopiesIn(g, granted) > 1))
            => Ids(g) \cap Ids(h) = {}

\* The step of writer w that ends _reserve_id_range (lines 1854-1859).
ExtendStep(w) == proc[w].pc = "extend" /\ proc'[w] # proc[w]

\* C2: a reserve of count n that finds the row of kind K with current_id c
\* stores the range (c+1, c+n) under K in pks and leaves current_id at c+n.
C2_GrantExtendsCounter ==
    [][\A w \in Writers :
          (ExtendStep(w) /\ proc[w].cls_pk # NoRow) =>
              LET k == proc[w].cls
                  c == primary_keys[k]
                  n == proc[w].count
              IN  /\ pks'[w][k] = <<c + 1, c + n>>
                  /\ primary_keys'[k] = c + n
                  /\ \A j \in Kinds \ {k} : pks'[w][j] = pks[w][j]]_vars

\* A range of two or more identities granted above another writer's range.
C2_Witness ==
    \E w \in Writers :
        /\ ret = Outcome(w, "reserve", "", 0, "", 0)
        /\ pks[w]["Issue"] # NoRange
        /\ pks[w]["Issue"][1] > 1
        /\ pks[w]["Issue"][2] > pks[w]["Issue"][1]
        /\ primary_keys["Issue"] = pks[w]["Issue"][2]
        /\ \E v \in Writers \ {w} : pks[v]["Issue"] # NoRange

\* The identities next, next+1, ... of which get has returned the first n.
FirstIds(range, n) == [i \in 1..n |-> range[1] + i - 1]

RangeSize(range) == range[2] - range[1] + 1

\* C3: the get calls that follow a grant of (next, max) for K return next,
\* next+1, ..., max in this order, each once, and a get after max was
\* returned raises the range-exhausted error and returns nothing.
C3_GetInOrderThenExhausted ==
    \A w \in Writers, k \in Kinds :
        got[w][k].range # NoRange =>
            LET g == got[w][k]
                isGet == ret.op = "get" /\ ret.writer = w /\ ret.cls = k
            IN  /\ Len(g.vals) <= RangeSize(g.range)
                /\ g.vals = FirstIds(g.range, Len(g.vals))
                /\ isGet => ret.err \in {"", "RangeExhausted"}
                /\ (isGet /\ ret.err = "") =>
                       (g.vals # <<>> /\ ret.val = g.vals[Len(g.vals)])
                /\ (isGet /\ ret.err = "RangeExhausted") =>
                       Len(g.vals) = RangeSize(g.range)

\* Three identities returned in order, and the fourth get refused.
C3_Witness ==
    /\ got[1]["Issue"].range # NoRange
    /\ got[1]["Issue"].vals = <<got[1]["Issue"].range[1],
                                got[1]["Issue"].range[1] + 1,
                                got[1]["Issue"].range[1] + 2>>
    /\ ret = Outcome(1, "get", "Issue", 0, "RangeExhausted", 0)

\* C4: get(K) raises NotRegistered when K is not in QUERY_CLASSES, and
\* otherwise NotReserved when pks has no entry for K; a get that raises
\* (these two or RangeExhausted) leaves pks as it was.
C4_GetErrors ==
    [][(ret'.op = "get") =>
          LET w == ret'.writer
              k == ret'.cls
          IN  /\ k \notin QUERY_CLASSES => ret'.err = "NotRegistered"
              /\ (k \in QUERY_CLASSES /\ pks[w][k] = NoRange) =>
                     ret'.err = "NotReserved"
              /\ ret'.err \in {"", "NotRegistered", "NotReserved", "RangeExhausted"}
              /\ ret'.err # "" => pks' = pks]_vars

\* A get for a registered kind with no range, while another kind has one.
C4_Witness ==
    /\ ret.op = "get"
    /\ ret.err = "NotReserved"
    /\ pks[1]["Issue"] # NoRange
    /\ pks[1]["SharedText"] = NoRange

C6_LockRetriesBounded ==
    /\ \A w \in Writers :
          proc[w].pc = "lock" =>
              /\ proc[w].attempts \in 0..2
              /\ proc[w].retries = 3 - proc[w].attempts
    /\ ret.op = "_lock_pk_with_retries" =>
          /\ ret.tries \in 1..3
          /\ ret.val = primary_keys[ret.cls]
          /\ ret.val # NoRow => rowLock[ret.cls] = ret.writer
          /\ proc[ret.writer].pc \in {"resync", "extend"}
    /\ ret.err = "OperationalError" =>
          /\ ret.tries = 3
          /\ proc[ret.writer].pc = "idle"

\* The third attempt has raised and reserve has ended with the error.
C6_Witness ==
    /\ ret.op = "reserve"
    /\ ret.err = "OperationalError"
    /\ ret.tries = 3

\* ------------------------------------------------------- merge properties

\* The key of record r, and the keys present in the table.
KeyOf(r) == batch.rec[r].attrs

StoredKeys == {row.attrs : row \in rows}

\* C7: for every key-merged kind, candidate sequence and table content, the
\* records merge has yielded have pairwise different keys, and none of them
\* has a key that is present in the table.
C7_NoDuplicateNoStored ==
    /\ \A i, j \in 1..Len(mg.out) :
          i # j => KeyOf(mg.out[i]) # KeyOf(mg.out[j])
    /\ \A i \in 1..Len(mg.out) : KeyOf(mg.out[i]) \notin StoredKeys

\* A SharedText merge that ran to its end over three candidates, two of them
\* different records with one new key and one with a key of the table.
C7_Witness ==
    /\ batch.cls = "SharedText"
    /\ mg.pc = "done"
    /\ Len(batch.items) = 3
    /\ \E i, j, k \in 1..3 :
          /\ batch.items[i] # batch.items[j]
          /\ KeyOf(batch.items[i]) = KeyOf(batch.items[j])
          /\ KeyOf(batch.items[i]) \notin StoredKeys
          /\ KeyOf(batch.items[k]) \in StoredKeys
    /\ Len(mg.out) = 1

\* The first occurrences, among the first n candidates, of the keys that are
\* not in the table, in the order of the sequence.
RECURSIVE FirstNew(_)
FirstNew(n) ==
    IF n = 0 THEN <<>>
    ELSE LET r == batch.items[n]
         IN  IF \/ KeyOf(r) \in StoredKeys
                \/ \E j \in 1..(n - 1) : KeyOf(batch.items[j]) = KeyOf(r)
             THEN FirstNew(n - 1)
             ELSE Append(FirstNew(n - 1), r)

\* C8: what merge has yielded once it went through the first n candidates is
\* exactly the first occurrence of each distinct key not in the table, in
\* the order of the input; at the end n is the whole sequence.
C8_FirstOccurrences ==
    mg.pc \in {"scan", "yield", "done", "failed"} =>
        mg.out = FirstNew(mg.pos - 1)

\* A Sink merge at its end: three records, the third repeating the key of
\* the first, none in the table; the first and the second were yielded.
C8_Witness ==
    /\ batch.cls = "Sink"
    /\ mg.pc = "done"
    /\ batch.items = <<1, 2, 3>>
    /\ KeyOf(1) = KeyOf(3)
    /\ KeyOf(1) # KeyOf(2)
    /\ rows = {}
    /\ mg.out = <<1, 2>>

\* C9: once prepare has gone through the whole candidate sequence, all
\* candidates that share a key report one and the same integer from
\* resolved().
C9_SameKeySameId ==
    (batch.consumer = "prepare" /\ mg.pc = "done") =>
        \A i, j \in 1..Len(batch.items) :
            KeyOf(batch.items[i]) = KeyOf(batch.items[j]) =>
                /\ resolved(heap, ItemAt(i).id).tag = "int"
                /\ resolved(heap, ItemAt(i).id) = resolved(heap, ItemAt(j).id)

\* C10: every candidate merge went through whose key is that of a row of the
\* table has is_new false, resolves to the id of a row with its key, and
\* was not yielded.
C10_StoredKeyResolved ==
    \A n \in 1..(mg.pos - 1) :
        KeyOf(batch.items[n]) \in StoredKeys =>
            LET a == ItemAt(n).id
                v == resolved(heap, a)
            IN  /\ heap[a].is_new = FALSE
                /\ v.tag = "int"
                /\ \E row \in rows : /\ row.attrs = KeyOf(batch.items[n])
                                     /\ row.id = v.v
                /\ \A i \in 1..Len(mg.out) : mg.out[i] # batch.items[n]

\* The issue of handle "H1", stored with id 42, is submitted again: its
\* placeholder resolves to 42 with is_new false and nothing is yielded.
C10_Witness ==
    /\ batch.cls = "Issue"
    /\ rows = {[id |-> 42, attrs |-> [handle |-> "H1"]]}
    /\ batch.items = <<1>>
    /\ KeyOf(1) = [handle |-> "H1"]
    /\ mg.pc = "done"
    /\ resolved(heap, batch.rec[1].id) = IntVal(42)
    /\ heap[batch.rec[1].id].is_new = FALSE
    /\ mg.out = <<>>


\* ------------------------------------------------------- batch properties
\* C11: when the batch is run a second time against the storage that holds
\* the rows of the first run, prepare produces no record, for the merged
\* kind and for the kind prepared after it.
C11_SecondRunYieldsNothing ==
    run = 2 => prepared = <<>> /\ dep.prepared = <<>>


\* The largest id of the table before the batch (0 for an empty table).
TopStored == SetMax({row.id : row \in rows})

\* The position of the first occurrence of record r in the candidates.
FirstPos(r) == CHOOSE n \in 1..Len(batch.items) :
                  /\ batch.items[n] = r
                  /\ \A j \in 1..(n - 1) : batch.items[j] # r

C13_ConstructedNotNew ==
    (ret.op \in {"DBID", "IssueDBID"} /\ ret.err = "" /\ ret.arg.tag = "int")
        => /\ resolved(heap, ret.val.v) = ret.arg
           /\ heap[ret.val.v].is_new = FALSE

\* C14: once the value of a DBID is set (not None), no later step changes
\* it.
C14_SetOnce ==
    [][\A a \in 1..Len(heap) :
          heap[a].id # NoneVal => heap'[a].id = heap[a].id]_vars

\* C15: a call of resolved() on an object whose terminal value is None,
\* its own or that of the object it points to, raises Unresolved; no call
\* returns None.
C15_UnresolvedRaises ==
    ret.op = "resolved" =>
        /\ resolved(heap, ret.obj) = NoneVal => ret.err = "Unresolved"
        /\ ret.err = "" => ret.val # NoneVal

\* C16: resolve(id, is_new) raises the type error exactly when id is not an
\* int, None or a DBID; when it raises, the value and the flag of the object
\* (and of every object) are as before; when it returns, both are the
\* arguments.
C16_ResolveTyped ==
    [][ret'.op = "resolve" =>
          LET a == ret'.obj
          IN  /\ ret'.err = "TypeError" <=>
                    ret'.arg.tag \notin {"int", "None", "DBID"}
              /\ ret'.err \in {"", "TypeError"}
              /\ ret'.err = "TypeError" => heap' = heap
              /\ ret'.err = "" => /\ heap'[a].id = ret'.arg
                                  /\ heap'[a].is_new = ret'.flag
                                  /\ \A b \in 1..Len(heap) :
                                        b # a => heap'[b] = heap[b]]_vars

\* A resolved object was asked to resolve to a str: the call raised and the
\* object still holds its int and its flag.
C16_Witness ==
    /\ ret.op = "resolve"
    /\ ret.arg = StrVal
    /\ ret.err = "TypeError"
    /\ heap[ret.obj].id = IntVal(2)
    /\ heap[ret.obj].is_new = FALSE

\* C17: every DBID and IssueDBID is made with a local_id greater than that
\* of every object made before it, and no step changes the local_id of an
\* object.
C17_LocalIdFresh ==
    [][/\ \A a \in 1..Len(heap) :
             /\ a <= Len(heap')
             /\ heap'[a].local_id = heap[a].local_id
       /\ \A b \in (Len(heap) + 1)..Len(heap') :
             \A a \in 1..(b - 1) : heap'[a].local_id < heap'[b].local_id]_vars

\* An IssueDBID made after a DBID that was resolved twice in between.
C17_Witness ==
    /\ Len(heap) = 2
    /\ ret.op = "IssueDBID"
    /\ ret.val = DBIDRef(2)
    /\ heap[1].id = IntVal(2)
    /\ heap[1].is_new = FALSE
    /\ heap[1].local_id < heap[2].local_id


\* ------------------------------------------------- association properties

\* The pair of resolved endpoint identities of record r.
PairOf(r) ==
    <<resolved(heap, dep.rec[r].trace_frame_id),
      resolved(heap, dep.rec[r].leaf_id)>>

\* Both endpoints of every candidate are resolved.
EndpointsResolved ==
    \A n \in 1..Len(dep.items) :
        /\ PairOf(dep.items[n])[1].tag = "int"
        /\ PairOf(dep.items[n])[2].tag = "int"

\* The first occurrences, among the first n candidates, of the distinct
\* pairs, in the order of the sequence.
RECURSIVE FirstPairs(_)
FirstPairs(n) ==
    IF n = 0 THEN <<>>
    ELSE LET r == dep.items[n]
         IN  IF \E j \in 1..(n - 1) : PairOf(dep.items[j]) = PairOf(r)
             THEN FirstPairs(n - 1)
             ELSE Append(FirstPairs(n - 1), r)

\* C18: when the endpoints of all candidates are resolved, what
\* _merge_assocs has yielded once it went through the first n candidates is
\* exactly the first occurrence of each distinct pair of resolved endpoint
\* identities, in input order: a later candidate of the same pair is
\* dropped and the pair of every candidate is that of a yielded record.
C18_FirstOfEachPair ==
    (dep.cls = "TraceFrameLeafAssoc" /\ EndpointsResolved) =>
        /\ dep.out = FirstPairs(dep.pos - 1)
        /\ \A i, j \in 1..Len(dep.out) :
              i # j => PairOf(dep.out[i]) # PairOf(dep.out[j])
        /\ \A n \in 1..(dep.pos - 1) :
              \E j \in 1..Len(dep.out) :
                 PairOf(dep.out[j]) = PairOf(dep.items[n])

\* Three candidates went through: the third has the pair of the first
\* through different DBID objects and was dropped, the second has another
\* pair and was yielded.
C18_Witness ==
    /\ dep.cls = "TraceFrameLeafAssoc"
    /\ EndpointsResolved
    /\ dep.pc = "done"
    /\ dep.items = <<1, 2, 3>>
    /\ PairOf(1) = PairOf(3)
    /\ PairOf(1) # PairOf(2)
    /\ dep.rec[1].trace_frame_id # dep.rec[3].trace_frame_id
    /\ dep.rec[1].leaf_id # dep.rec[3].leaf_id
    /\ dep.out = <<1, 2>>
    /\ Len(dep.prepared) = 2


\* -------------------------------------------------- issue instance properties

\* The record of the issue whose DBID instance i holds as issue_id.
IssueOf(i) == CHOOSE r \in DOMAIN batch.rec : batch.rec[r].id = dep.rec[i].issue_id

\* C19: IssueInstance.merge yields every candidate, in input order, whatever
\* the table holds: what it has yielded is always the candidates it went
\* through.  Each pass sets is_new_issue of the candidate to the is_new its
\* issue's DBID has at that moment, which is false for an issue whose handle
\* is that of a stored row.
C19_InstancesYielded ==
    /\ [](dep.cls = "IssueInstance" =>
             dep.out = SubSeq(dep.items, 1, dep.pos - 1))
    /\ [][(dep.cls = "IssueInstance" /\ dep'.pos = dep.pos + 1) =>
             LET i == dep.items[dep.pos]
             IN  /\ dep'.out = Append(dep.out, i)
                 /\ dep'.rec[i].is_new_issue =
                       PyBool(heap[dep.rec[i].issue_id].is_new)
                 /\ KeyOf(IssueOf(i)) \in StoredKeys =>
                       dep'.rec[i].is_new_issue = "False"]_vars

\* The issue of handle "H1" is stored with id 42 and is submitted again with
\* one instance: the DBID of the issue resolves to 42 and the instance was
\* yielded with is_new_issue false.
C19_Witness ==
    /\ dep.cls = "IssueInstance"
    /\ run = 1
    /\ rows = {[id |-> 42, attrs |-> [handle |-> "H1"]]}
    /\ batch.items = <<1>>
    /\ KeyOf(1) = [handle |-> "H1"]
    /\ dep.items = <<1>>
    /\ dep.pc = "done"
    /\ dep.out = <<1>>
    /\ resolved(heap, dep.rec[1].issue_id) = IntVal(42)
    /\ dep.rec[1].is_new_issue = "False"
    /\ Len(dep.prepared) = 1


\* --------------------------------------------------------- get properties

\* C20: a call of get(K) leaves the primary_keys row of every kind, the
\* data tables and the range of every other kind as they are; when it
\* returns a value only the first component of the range of K changes, by
\* one, and when it raises nothing changes.
C20_GetChangesCursorOnly ==
    [][ret'.op = "get" =>
          LET w == ret'.writer
              k == ret'.cls
          IN  /\ primary_keys' = primary_keys
              /\ data' = data
              /\ \A v \in Writers, j \in Kinds :
                    (v # w \/ j # k) => pks'[v][j] = pks[v][j]
              /\ ret'.err = "" =>
                    pks'[w][k] = <<pks[w][k][1] + 1, pks[w][k][2]>>
              /\ ret'.err # "" => pks'[w][k] = pks[w][k]]_vars

\* get("Issue") has just returned a value while the writer also holds a
\* range for SharedText and both kinds have their primary_keys row.
C20_Witness ==
    /\ ret.op = "get"
    /\ ret.cls = "Issue"
    /\ ret.err = ""
    /\ pks[ret.writer]["SharedText"] # NoRange
    /\ pks[ret.writer]["SharedText"][1] <= pks[ret.writer]["SharedText"][2]
    /\ primary_keys["Issue"] # NoRow
    /\ primary_keys["SharedText"] # NoRow


\* -------------------------------------------------------- lock properties

\* The writer that holds the lock on the row of k is the writer of this step.
WritesLocked(k) ==
    /\ rowLock[k] # NoWriter
    /\ proc[rowLock[k]].cls = k
    /\ proc'[rowLock[k]] # proc[rowLock[k]]

\* C21: every write to the primary_keys row of a kind, the creation of the
\* row included, is made by a writer that holds the lock on that row.
C21_WritesUnderLock ==
    [][\A k \in Kinds :
          primary_keys'[k] # primary_keys[k] => WritesLocked(k)]_vars

\* C21, as amended: every write to an existing primary_keys row (the resync
\* and the extension) is made by the writer that holds the lock on it; a
\* missing row is created with no lock held, and a row once created stays.
C21_ExistingRowWritesUnderLock ==
    [][\A k \in Kinds :
          /\ (primary_keys[k] # NoRow /\ primary_keys'[k] # primary_keys[k])
                => WritesLocked(k)
          /\ (primary_keys[k] = NoRow /\ primary_keys'[k] # NoRow)
                => rowLock[k] = NoWriter
          /\ primary_keys[k] # NoRow => primary_keys'[k] # NoRow]_vars

\* Both writers found no row for Issue; one has created it and extended it,
\* and the other is about to attempt its own INSERT.
C21_Witness ==
    /\ primary_keys["Issue"] # NoRow
    /\ \E w, v \in Writers :
          /\ w # v
          /\ proc[w].pc = "resync"
          /\ proc[w].cls = "Issue"
          /\ proc[w].cls_pk = NoRow
          /\ got[v]["Issue"].range # NoRange
          /\ got[v]["Issue"].resynced


\* ------------------------------------------------- DBID arithmetic properties

\* The int a value stands for: the int itself, the int a DBID holds, or the
\* int held by the DBID it points to; -1 when there is none.
TerminalInt(x) ==
    IF x.tag = "int" THEN x.v
    ELSE IF x.tag # "DBID" THEN -1
    ELSE IF heap[x.v].id.tag = "int" THEN heap[x.v].id.v
    ELSE IF heap[x.v].id.tag = "DBID" /\ heap[heap[x.v].id.v].id.tag = "int"
    THEN heap[heap[x.v].id.v].id.v
    ELSE -1

\* C22: for a and b that resolve, directly or through one indirection, to
\* ints x and y, a + b is x + y and a < b, a <= b, a > b, a >= b are
\* x < y, x <= y, x > y, x >= y.
C22_ArithmeticOnResolved ==
    LET x == TerminalInt(DBIDRef(ret.obj))
        y == TerminalInt(ret.arg)
    IN  (ret.op \in ArithOps /\ x # -1 /\ y # -1) =>
            /\ ret.err = ""
            /\ ret.op = "__add__" => ret.val = [tag |-> "int", v |-> x + y]
            /\ ret.op = "__lt__" => (ret.val.v = 1 <=> x < y)
            /\ ret.op = "__le__" => (ret.val.v = 1 <=> x <= y)
            /\ ret.op = "__gt__" => (ret.val.v = 1 <=> x > y)
            /\ ret.op = "__ge__" => (ret.val.v = 1 <=> x >= y)
            /\ ret.op # "__add__" => ret.val.tag = "bool"

\* a points to b and b holds 2, so both stand for 2: a <= b is True.
C22_Witness ==
    /\ ret.op = "__le__"
    /\ ret.obj = 1
    /\ ret.arg = DBIDRef(2)
    /\ heap[1].id = DBIDRef(2)
    /\ heap[2].id = IntVal(2)
    /\ ret.val = BoolVal(TRUE)


\* --------------------------------------------------- compute_models properties

\* The lines compute_models returned.
Lines == [n \in 1..Len(gen.out) |-> gen.out[n].line]

\* The view of a qualified name.
ViewNamed(name) ==
    CHOOSE v \in {all_views[i] : i \in 1..Len(all_views)} : v.name = name

\* C23: compute_models returns exactly one line for each view given whose
\* qualified name is not in whitelisted_views, in ascending order of the
\* qualified names; for the two calls of the test these are the lists the
\* test expects.
C23_OneLinePerViewSorted ==
    gen.pc = "done" =>
        LET names == {gen.views[i].name : i \in 1..Len(gen.views)}
                     \ gen.whitelisted_views
        IN  /\ Len(gen.out) = Cardinality(names)
            /\ \A name \in names :
                  \E n \in 1..Len(gen.out) : gen.out[n].name = name
            /\ \A n \in 1..Len(gen.out) : gen.out[n].name \in names
            /\ \A m, n \in 1..Len(gen.out) :
                  m < n => StrLess(ViewNamed(gen.out[m].name).chars,
                                   ViewNamed(gen.out[n].name).chars)
            /\ (gen.views = all_views /\ gen.whitelisted_classes = {}
                   /\ gen.whitelisted_views = {})
                  => Lines = Expected_NoWhitelist
            /\ (gen.views = all_views /\ gen.whitelisted_classes = {"int"}
                   /\ gen.whitelisted_views = {"testA"})
                  => Lines = Expected_IntAndTestA

\* testE, methodA and testE again were given with testE whitelisted: the
\* one line returned is that of methodA.
C23_Witness ==
    /\ gen.pc = "done"
    /\ gen.views = <<TestViews.testE, TestViews.methodA, TestViews.testE>>
    /\ gen.whitelisted_views = {"testE"}
    /\ Len(gen.out) = 1
    /\ gen.out[1].name = "TestClass.methodA"

\* C24: in every model emitted, each parameter of the view, self, *args
\* and **kwargs included, carries the annotation TaintSource[UserControlled]
\* unless the name of its declared annotation is in whitelisted_classes, in
\* which case it is emitted bare; a parameter without annotation is always
\* a taint source.
C24_ParametersAnnotated ==
    \A m \in gen.entry_points :
        LET v == ViewNamed(m.name)
        IN  /\ Len(m.params) = Len(v.params)
            /\ \A n \in 1..Len(v.params) :
                  LET p == v.params[n]
                      bare == p.kind \o p.name
                  IN  /\ p.annotation = "" => m.params[n].tainted
                      /\ m.params[n].tainted <=>
                            p.annotation \notin gen.whitelisted_classes
                      /\ m.params[n].text =
                            IF m.params[n].tainted
                            THEN bare \o ": TaintSource[UserControlled]"
                            ELSE bare

\* The model of testE with int whitelisted: x is bare and **kwargs, of
\* annotation str, is a taint source.
C24_Witness ==
    /\ gen.whitelisted_classes = {"int"}
    /\ \E m \in gen.entry_points :
          /\ m.name = "testE"
          /\ m.line = "def testE(x, **kwargs: TaintSource[UserControlled]): ..."
          /\ ~m.params[1].tainted
          /\ m.params[2].tainted


\* ------------------------------------------------------ Issue properties

\* The handles, in order, of the candidates among the first n whose handle
\* is that of an earlier candidate.
RECURSIVE RepeatedHandles(_)
RepeatedHandles(n) ==
    IF n = 0 THEN <<>>
    ELSE IF \E j \in 1..(n - 1) : KeyOf(batch.items[j]) = KeyOf(batch.items[n])
    THEN Append(RepeatedHandles(n - 1), KeyOf(batch.items[n]).handle)
    ELSE RepeatedHandles(n - 1)

\* C25: Issue.merge has called log.warning once for every candidate it went
\* through whose handle is that of an earlier candidate of the run, stored
\* or not, and such a candidate is not yielded.
C25_WarnsEveryRepeat ==
    (batch.cls = "Issue" /\ mg.pc \in {"scan", "yield", "done"}) =>
        /\ warnings = RepeatedHandles(mg.pos - 1)
        /\ Len(mg.out) + Len(RepeatedHandles(mg.pos - 1)) <= mg.pos - 1


\* C26: once Issue and then IssueInstance have been prepared, is_new_issue
\* of every instance is true if the handle of its issue was not in the
\* table before the batch, also when its issue is a later candidate of a
\* handle first met in this run, and false if the handle was in the table.
C26_NewIssueFlag ==
    (dep.cls = "IssueInstance" /\ mg.pc = "done" /\ dep.pc = "done") =>
        \A i \in DOMAIN dep.rec :
            dep.rec[i].is_new_issue =
                PyBool(KeyOf(IssueOf(i)) \notin StoredKeys)


\* ----------------------------------------------------- prepare properties

\* C27: prepare calls get once for each record merge yields: the identities
\* obtained are as many as the records prepare has dealt with, each is the
\* one before plus one, and the step that deals with a record sets its DBID
\* to the identity get returned, with is_new true.
C27_OneGetPerYield ==
    /\ [](batch.consumer = "prepare" =>
             LET vals == got[1][batch.cls].vals
             IN  /\ Len(vals) = Len(prepared)
                 /\ mg.pc \in {"scan", "done"} => Len(vals) = Len(mg.out)
                 /\ mg.pc \in {"yield", "failed"} => Len(vals) = Len(mg.out) - 1
                 /\ \A n \in 1..(Len(vals) - 1) : vals[n + 1] = vals[n] + 1)
    /\ [][(batch.consumer = "prepare" /\ mg.pc = "yield") =>
             /\ ret'.op = "get"
             /\ ret'.cls = batch.cls
             /\ ret'.err = "" =>
                   /\ heap'[batch.rec[Yielded].id] =
                         [heap[batch.rec[Yielded].id] EXCEPT
                            !.id = [tag |-> "int", v |-> ret'.val],
                            !.is_new = TRUE]
                   /\ got'[1][batch.cls].vals =
                         Append(got[1][batch.cls].vals, ret'.val)
                   /\ prepared' = Append(prepared, to_dict(Yielded))
             /\ ret'.err # "" => UNCHANGED <<heap, got, prepared>>]_vars

\* A Sink batch of three records, the third of the name of the first, over
\* an empty table: two records were yielded and given the identities 1
\* and 2.
C27_Witness ==
    /\ batch.cls = "Sink"
    /\ batch.consumer = "prepare"
    /\ mg.pc = "done"
    /\ batch.items = <<1, 2, 3>>
    /\ mg.out = <<1, 2>>
    /\ rows = {}
    /\ got[1]["Sink"].vals = <<1, 2>>
    /\ heap[batch.rec[1].id].id = IntVal(1)
    /\ heap[batch.rec[2].id].id = IntVal(2)
    /\ heap[batch.rec[2].id].is_new


\* C28: prepare has emitted one dictionary for each record merge yielded
\* and it dealt with, in the order of the yields, holding the record's
\* fields; it has emitted none for a candidate merge dropped, whose key is
\* in the table or is that of an earlier candidate.
C28_OneDictPerYield ==
    batch.consumer = "prepare" =>
        /\ Len(prepared) = IF mg.pc \in {"yield", "failed"}
                           THEN Len(mg.out) - 1 ELSE Len(mg.out)
        /\ \A n \in 1..Len(prepared) :
              prepared[n] = [id |-> batch.rec[mg.out[n]].id,
                             attrs |-> batch.rec[mg.out[n]].attrs]
        /\ \A n \in 1..(mg.pos - 1) :
              LET r == batch.items[n]
              IN  (\/ KeyOf(r) \in StoredKeys
                   \/ \E j \in 1..(n - 1) :
                         /\ batch.items[j] # r
                         /\ KeyOf(batch.items[j]) = KeyOf(r)
                         /\ \A k \in 1..(j - 1) : batch.items[k] # r)
                  => \A m \in 1..Len(prepared) :
                        prepared[m].id # batch.rec[r].id
        /\ Len(prepared) <= Cardinality({KeyOf(batch.items[n]) :
                                           n \in 1..(mg.pos - 1)}
                                        \ StoredKeys)

\* A SharedText batch of three records prepared to its end: the key of the
\* first is in the table, the third has the key of the second; the one
\* dictionary emitted is that of the second.
C28_Witness ==
    /\ batch.cls = "SharedText"
    /\ batch.consumer = "prepare"
    /\ mg.pc = "done"
    /\ batch.items = <<1, 2, 3>>
    /\ KeyOf(1) \in StoredKeys
    /\ KeyOf(2) \notin StoredKeys
    /\ KeyOf(3) = KeyOf(2)
    /\ prepared = <<[id |-> batch.rec[2].id, attrs |-> KeyOf(2)]>>


\* C29: no DBID ever points to itself or to a DBID that points to a DBID,
\* and once merge and prepare have gone through the candidates the DBID of
\* every candidate holds an int or points to a DBID that holds an int.
C29_AtMostOneIndirection ==
    /\ \A a \in 1..Len(heap) :
          heap[a].id.tag = "DBID" =>
              /\ heap[a].id.v # a
              /\ heap[heap[a].id.v].id.tag # "DBID"
    /\ (batch.consumer = "prepare" /\ mg.pc = "done") =>
          \A n \in 1..Len(batch.items) :
              LET v == heap[ItemAt(n).id].id
              IN  \/ v.tag = "int"
                  \/ v.tag = "DBID" /\ heap[v.v].id.tag = "int"


\* ----------------------------------------------------- reserve properties

\* Something of kind k that reserve works on changes in this step: its
\* primary_keys row, the lock on it, or a writer's range for it.
ReserveTouches(k) ==
    \/ primary_keys'[k] # primary_keys[k]
    \/ rowLock'[k] # rowLock[k]
    \/ \E w \in Writers :
          pks'[w][k] # pks[w][k] /\ ret'.op # "get"

\* C30: reserve locks the row, writes the row and stores a range only for
\* a kind that is among the classes it was given, is in QUERY_CLASSES and
\* has a count of at least one; for every other kind row, lock and range
\* stay as they are.
C30_ReserveOnlyKindsWithRecords ==
    [][\A k \in Kinds :
          ReserveTouches(k) =>
              \E w \in Writers :
                 /\ proc[w].cls = k
                 /\ k \in QUERY_CLASSES
                 /\ proc[w].count >= 1]_vars


\* ------------------------------------------------- lock failure properties

\* The step in which reserve of writer w fails on the lock of kind k.
LockFails(w, k) ==
    /\ ret'.op = "reserve"
    /\ ret'.err = "OperationalError"
    /\ ret'.writer = w
    /\ ret'.cls = k

\* C31: when reserve fails for kind K because the lock attempts are
\* exhausted, the error ends the call (the writer is outside reserve again),
\* the call has stored no range for K, and the failing step leaves the
\* range table, the grants and the counter rows as they were: the counter
\* of K has not been advanced by the count.
C31_LockFailureLeavesNoRange ==
    [][\A w \in Writers, k \in Kinds :
          LockFails(w, k) =>
              /\ proc[w].pc = "lock" /\ proc[w].cls = k
              /\ proc'[w].pc = "idle"
              /\ k \notin proc'[w].stored
              /\ pks' = pks
              /\ granted' = granted
              /\ primary_keys' = primary_keys]_vars

\* A reserve has failed after RETRIES attempts on the row of one of its
\* classes, which another writer holds locked.
C31_Witness ==
    /\ ret.op = "reserve"
    /\ ret.err = "OperationalError"
    /\ ret.tries = RETRIES
    /\ ret.cls \in proc[ret.writer].classes
    /\ rowLock[ret.cls] \notin {NoWriter, ret.writer}


\* ------------------------------------------------------ counter properties

\* C33: in every state the counter row of a kind holds at least the largest
\* identity of every range granted for the kind so far, whatever the
\* interleaving of the reserve calls and their use_lock.
C33_CounterCoversGrants ==
    \A g \in BagToSet(granted) :
        Ids(g) # {} => primary_keys[g.cls] >= g.max


\* ------------------------------------------------------- return properties

\* The step in which reserve of writer w returns self.
ReserveReturns(w) ==
    /\ ret'.op = "reserve"
    /\ ret'.err = ""
    /\ ret'.writer = w

GetReturns(w, k) ==
    /\ ret'.op = "get"
    /\ ret'.err = ""
    /\ ret'.writer = w
    /\ ret'.cls = k

\* C35: the calls of a process, through whatever instance, work on one
\* range table.  A reserve for kind K replaces the entry of K by the range
\* it was granted; get returns the next identity of the entry stored last;
\* and no get ever returns an identity that was left unconsumed in an entry
\* that has been replaced.
C35_SharedTableLatestRange ==
    [][\A w \in Writers, k \in Kinds :
          /\ (ExtendStep(w) /\ proc[w].cls = k /\ proc[w].cls_pk # NoRow) =>
                 /\ pks'[w][k] = pk_entry(primary_keys[k], proc[w].count)
                 /\ got'[w][k].dropped =
                       got[w][k].dropped \cup Unconsumed(pks[w][k])
          /\ GetReturns(w, k) =>
                 /\ ret'.val = got[w][k].range[1] + Len(got[w][k].vals)
                 /\ ret'.val \notin got[w][k].dropped]_vars


\* -------------------------------------------------------- count properties

\* item_counts is None, is empty, or has no entry for kind k.
NoCountGiven(ic, k) ==
    \/ ~ic.given
    \/ \A j \in Kinds : ic.entry[j] = NoEntry
    \/ ic.entry[k] = NoEntry

\* The entry of pks is an empty range: next = max + 1.
EmptyRange(e) == e # NoRange /\ e[1] = e[2] + 1

\* C38: reserve takes the count 1 for a class when item_counts is None, is
\* empty or has no entry for it, and the entry otherwise.  With a count of
\* 0 the row is still locked, is committed with the value it had, and the
\* range stored is empty; a get on an empty range that was just stored
\* fails with the range-exhausted error.
C38_DefaultCountAndZero ==
    [][\A w \in Writers :
          LET p == proc[w]
              k == p.cls
          IN  /\ proc'[w].pc # "idle" =>
                    LET q == proc'[w]
                    IN  q.count = IF NoCountGiven(q.item_counts, q.cls)
                                  THEN 1 ELSE q.item_counts.entry[q.cls]
              /\ (ExtendStep(w) /\ p.cls_pk # NoRow /\ p.count = 0) =>
                    /\ rowLock[k] = w
                    /\ rowLock'[k] = NoWriter
                    /\ primary_keys'[k] = primary_keys[k]
                    /\ EmptyRange(pks'[w][k])
                    /\ pks'[w][k][2] = primary_keys[k]
              /\ \A j \in Kinds :
                    (ret'.op = "get" /\ ret'.writer = w /\ ret'.cls = j
                       /\ EmptyRange(pks[w][j]))
                    => /\ ret'.err = "RangeExhausted"
                       /\ pks'[w][j] = pks[w][j]]_vars

\* reserve was given the count 0 for Issue: the range stored is empty and
\* the first get for Issue has failed with the range-exhausted error.
C38_Witness ==
    /\ ret = Outcome(1, "get", "Issue", 0, "RangeExhausted", 0)
    /\ got[1]["Issue"].vals = <<>>
    /\ EmptyRange(pks[1]["Issue"])
    /\ pks[1]["Issue"] = got[1]["Issue"].range
    /\ primary_keys["Issue"] = pks[1]["Issue"][2]


\* ------------------------------------------- association prepare properties

\* C37: preparing records of a kind without an id field makes no call of
\* the allocator: no step of it is a get, and the range table, the counter
\* rows, the record of identities obtained and every DBID stay as they are.
C37_AssocPrepareNoAllocator ==
    [][dep.cls = "TraceFrameLeafAssoc" =>
          /\ ret'.op # "get"
          /\ pks' = pks
          /\ primary_keys' = primary_keys
          /\ got' = got
          /\ pending' = pending
          /\ heap' = heap
          /\ next_id' = next_id]_vars

\* The prepare of three association candidates is over: two were yielded
\* and serialized, one was dropped.
C37_Witness ==
    /\ dep.cls = "TraceFrameLeafAssoc"
    /\ dep.pc = "done"
    /\ Len(dep.items) = 3
    /\ Len(dep.prepared) = 2


\* ---------------------------------------------------- resolved properties

\* C36: in every state reached by building the records and merging or
\* preparing them, also when a record object occurs more than once among
\* the candidates, resolved() on every DBID comes to an end and returns:
\* the recursion of lines 345-346 never runs out of stack.
C36_ResolvedTerminates ==
    \A a \in 1..Len(heap) : resolved(heap, a) # RecursionError


\* ------------------------------------------------- source location properties

\* The value read back equals the value written: None for None, a location
\* equal by __eq__, or a list of as many locations, equal one by one.
SameAsWritten ==
    CASE loc.value.tag = "None" -> loc.result.tag = "None"
      [] loc.value.tag = "loc" ->
            /\ loc.result.tag = "loc"
            /\ SourceLocation_eq(loc.result.v, loc.value.v)
      [] OTHER ->
            /\ loc.result.tag = "list"
            /\ Len(loc.result.v) = Len(loc.value.v)
            /\ \A n \in 1..Len(loc.value.v) :
                  /\ loc.result.v[n] # InvalidLocationString
                  /\ SourceLocation_eq(loc.result.v[n], loc.value.v[n])

\* C39: a list of source locations with integer fields written through
\* SourceLocationsType.process_bind_param and read back through
\* process_result_value is a list of locations equal by __eq__ to those
\* written, as a single location written and read through
\* SourceLocationType is.
C39_LocationsRoundTrip ==
    (loc.pc = "read" /\ loc.value.tag # "None") => SameAsWritten


\* -------------------------------------------------- concurrent batch properties

\* The keys the prepare of each process has serialized, each with the
\* identity its record was given.
Assigned(w) ==
    IF w = 1
    THEN {[id |-> resolved(heap, prepared[n].id), attrs |-> prepared[n].attrs]
            : n \in 1..Len(prepared)}
    ELSE {[id |-> resolved(peer.heap, peer.prepared[n].id),
           attrs |-> peer.prepared[n].attrs] : n \in 1..Len(peer.prepared)}

\* Both processes have yielded a candidate of the same key, which no row of
\* the table has, as new, and have given it two different identities.
SameKeyTwoIdentities ==
    \E x \in Assigned(1), y \in Assigned(2) :
        /\ x.attrs = y.attrs
        /\ x.id # y.id
        /\ \A row \in rows : row.attrs # x.attrs

\* C32: two batches that run concurrently on one store, each with a
\* candidate of the same key that the store lacks, can both yield it as
\* new and give it two different identities; and no identity given by one
\* batch is ever an identity given by the other.
C32_RaceIdentitiesDistinct ==
    \A x \in Assigned(1), y \in Assigned(2) : x.id # y.id

====
